---- MODULE Spec2Model ----
(***************************************************************************)
(* Model of the qtau / pilot-quantum dispatch service.                     *)
(*                                                                         *)
(*   SpecTasks    classical submit_task and its worker-side wrapper        *)
(*                task_func (pilot/pilot_compute_service.py)               *)
(*   SpecFutures  get_results over futures completing in any order         *)
(*   SpecShim     the worker shim quantum_execution_remote and the         *)
(*                per-worker Selector singleton (services/worker_qdreamer) *)
(*   SpecService  PilotComputeService: create_pilot, initialize_dreamer,   *)
(*                submit_quantum_task                                      *)
(*   SpecSelector the simple selection strategies of pilot/dreamer.py      *)
(*   SpecPlanner  get_cut_plan of pilot/dreamer.py                         *)
(*   SpecCancel   PilotComputeService.cancel over the pilots' batch jobs   *)
(*   SpecMpi      submit_mpi_task: task_func around an srun command        *)
(*   SpecPlannerLive  SpecPlanner with a started call running on           *)
(*   SpecRoundRobin   RoundRobinStrategy.select_resource called from       *)
(*                several threads of one worker                            *)
(*   SpecPilotFamily  a resource from its generator through                *)
(*                initialize_dreamer's prefixing to the shim's family test *)
(*   SpecManagerWait  QTauManager.wait polling its batch job               *)
(*                (qtau/plugins/qtau_manager_base.py)                      *)
(*   SpecScoring, SpecLeastError, SpecBest, SpecExecutorType               *)
(*                one function called on its own: the scoring select,      *)
(*                LeastErrorRateStrategy.select_resource,                  *)
(*                Q_DREAMER.get_best_resource and                          *)
(*                _get_executor_type_from_resource                         *)
(*                                                                         *)
(* Python's None is the string "None".  Names (worker names, pilot names,  *)
(* resource names) are sequences of tokens so that prefixing and           *)
(* concatenation are computed, not assumed.                                *)
(***************************************************************************)
EXTENDS Integers, Sequences, FiniteSets, TLC

VARIABLES
    \* ---- classical tasks (SpecTasks) ----
    execution_engine,   \* self.execution_engine: "DASK" | "RAY"
    client,             \* self.client: "None" | "ready"
    tpc,                \* per task: position of the submission / of task_func
    task_metrics,       \* per task: the closure's task_metrics dict
    task_result,        \* per task: the local `result` of task_func
    task_lock,          \* per task: the lock object task_func created (0: none yet)
    lock_holder,        \* per lock object: the task inside `with lock`, 0 when free
    task_future,        \* per task: the future returned by submit_task
    submit_error,       \* per task: exception raised synchronously by submit_task
    csv_rows,           \* the metrics file: the rows written so far, in order
    wall_clock,         \* per host: the local wall-clock time datetime.now() gives there
    srun_exit,          \* per task: << >>, or << the exit code of its srun command >>
    \* ---- get_results (SpecFutures) ----
    futures,            \* per future: [state, value]
    gr_pc,              \* get_results: "idle" | "loop" | "returned"
    gr_tasks,           \* get_results: its argument list
    gr_i,               \* get_results: index of the future being waited on
    gr_results,         \* get_results: the list being built / returned
    wt_pc,              \* wait_tasks: "idle" | "loop" | "returned" | "raised"
    wt_tasks,           \* wait_tasks: its argument list
    wt_i,               \* wait_tasks: index of the future being waited on
    wt_log,             \* wait_tasks: the futures whose error went to logger.error
    \* ---- worker shim (SpecShim) ----
    WORKER_QDREAMER,    \* module global _WORKER_QDREAMER: 0 (None) or a Selector object
    selectors,          \* the Selector objects constructed so far, each with its catalogue
                        \* and the invocation that constructed it
    spc,                \* per invocation: position in quantum_execution_remote
    shim_args,          \* per invocation: (quantum_task, quantum_resources) it was called with
    shim_metrics,       \* per invocation: its task_metrics dict
    worker_qdreamer,    \* per invocation: the local worker_qdreamer (0: not bound)
    shim_result,        \* per invocation: the local `result`
    shim_lock,          \* per invocation: the lock object it created (0: none yet)
    shim_future,        \* per invocation: the future the cluster client gave for it
    \* ---- simple-strategy Selector of pilot/dreamer.py (SpecSelector) ----
    dreamer_resources,  \* Q_DREAMER.quantum_resources: the catalogue, in insertion order
    strategy_type,      \* Q_DREAMER.strategy_type
    current_index,      \* RoundRobinStrategy.current_index
    selections,         \* the select_resource calls made so far: task and pick (0: None)
    select_calls,       \* per thread: where its select_resource call stands and the
                        \* locals it holds (SpecRoundRobin)
    \* ---- PilotComputeService (SpecService) ----
    pilots,             \* self.pilots: name -> pilot, in insertion order
    jobs,               \* the batch jobs submit_pilot created: cancelled or not
    quantum_resources,  \* self.quantum_resources: key -> resource object, in insertion order
    resource_name,      \* per resource object: its name attribute
    qdreamer,           \* self.qdreamer: << >> (None) or << the Selector >>
    dreamer_enabled,    \* self.dreamer_enabled
    init_calls,         \* how many times initialize_dreamer was called
    quantum_submits,    \* the submit_quantum_task calls so far and how each ended
    last_call,          \* the last service call and the exception it raised
    \* ---- get_cut_plan (SpecPlanner) ----
    cp_pc,              \* "idle" | "loop" | "finish" | "returned" | "raised"
    cp_args,            \* circuit, qpus_count, qpu_capacities, max_overhead, active_only
    cp_nodes,           \* nodes (after the active-only filter)
    cp_built,           \* built: the edges that have an overhead
    cp_candidates,      \* candidates: cut candidates, cheapest first
    cp_selected,        \* selected: the cuts accepted so far, in order
    cp_disabled,        \* disabled: the keys of the cut edges
    cp_total_overhead,  \* total_overhead
    cp_fragments,       \* fragments of the current state
    cp_best_plan,       \* best_plan (set = FALSE: None)
    cp_best_score,      \* best_score
    cp_visited,         \* the states visited: the no-cut state, then one per accepted cut
    cp_plan,            \* the dict get_cut_plan returned
    \* ---- QTauManager of qtau/plugins/qtau_manager_base.py (SpecManagerWait) ----
    managers,           \* per cluster manager: the state of its qtau_job, where its
                        \* wait() call stands and the local `state` of that call
    \* ---- a function or method called on its own ----
    returned            \* the last such call: the function, its arguments, the value it
                        \* returned and the exception it raised

taskVars == <<execution_engine, client, tpc, task_metrics, task_result, task_lock,
              lock_holder, task_future, submit_error, csv_rows, wall_clock,
              srun_exit>>
grVars   == <<gr_pc, gr_tasks, gr_i, gr_results>>
wtVars   == <<wt_pc, wt_tasks, wt_i, wt_log>>
futVars  == <<futures, grVars, wtVars>>
shimVars == <<WORKER_QDREAMER, selectors, spc, shim_args, shim_metrics, worker_qdreamer,
              shim_result, shim_lock, shim_future>>
selVars  == <<dreamer_resources, strategy_type, current_index, selections, select_calls>>
svcVars  == <<pilots, jobs, quantum_resources, resource_name, qdreamer, dreamer_enabled,
              init_calls, quantum_submits, last_call>>
planVars == <<cp_pc, cp_args, cp_nodes, cp_built, cp_candidates, cp_selected, cp_disabled,
              cp_total_overhead, cp_fragments, cp_best_plan, cp_best_score, cp_visited,
              cp_plan>>
vars     == <<taskVars, futVars, shimVars, selVars, svcVars, planVars, managers, returned>>
notTaskVars == <<futVars, shimVars, selVars, svcVars, planVars, managers, returned>>
notFutVars  == <<taskVars, shimVars, selVars, svcVars, planVars, managers, returned>>
notSelVars  == <<taskVars, futVars, shimVars, svcVars, planVars, managers, returned>>
notPlanVars == <<taskVars, futVars, shimVars, selVars, svcVars, managers, returned>>
notCallVars == <<taskVars, futVars, shimVars, selVars, svcVars, planVars, managers>>
notManagerVars == <<taskVars, futVars, shimVars, selVars, svcVars, planVars, returned>>
notSvcVars  == <<tpc, task_metrics, task_result, task_lock, lock_holder, task_future,
                 submit_error, csv_rows, wall_clock, srun_exit, futVars, shimVars, selVars,
                 planVars, managers, returned>>
\* the shim shares the metrics file and the heap of lock objects with task_func
notShimVars == <<execution_engine, client, tpc, task_metrics, task_result, task_lock,
                 task_future, submit_error, futVars, selVars, svcVars, planVars, managers,
                 returned>>

\* ------------------------------------------------------------------ bounds
NTasks == 2
NThreads == 2
NManagers == 2
MaxConcurrentCalls == 4
MaxClock == 2
NFutures == 2
MaxArgs == 3
NInvocations == 3
MaxCatalogue == 3
MaxSelections == 4
MaxPilotJobs == 2
MaxInitCalls == 2
MaxQuantumSubmits == 1
MaxQubits == 3
MaxGates == 2
MaxExitCode == 1
MaxNameParts == 3

Tasks == 1..NTasks

\* ------------------------------------------------------------------ helpers
\* str.startswith on token sequences
StartsWith(s, p) ==
    /\ Len(p) <= Len(s)
    /\ \A i \in 1..Len(p) : s[i] = p[i]

ANY == <<"ANY">>

\* client.scheduler_info()['workers'][w]['name'] for the workers of the cluster
WorkerRoster == { <<"a", "1">>, <<"a", "b">>, <<"b", "1">> }
PoolTags == { ANY, <<"a">>, <<"b">>, <<"c">> }

\* what a user function can do when called
ReturnValues == { "None", "v" }
UserOutcomes ==
    [kind : {"return"}, value : ReturnValues, msg : {"None"}]
      \cup [kind : {"Exception", "BaseException"}, value : {"None"}, msg : {"boom"}]

\* copy(METRICS) with the fields submit_task sets before shipping the closure
METRICS == [task_id |-> <<"None", 0>>, pilot_scheduled |-> <<"None">>, status |-> "None",
            error_msg |-> "None", submit_time |-> "None", completion_time |-> "None"]

\* the machines whose wall clock is read: the one submit_task runs on and the
\* one the worker process runs on
Hosts == { "client", "worker" }

\* workers: << >> when no `workers=` was handed to the client, else << the set handed >>
NoFuture == [state |-> "none", value |-> "None", workers |-> << >>]

\* ------------------------------------------------------------------ SpecTasks
TasksInit ==
    /\ execution_engine \in {"DASK", "RAY"}
    /\ client = "None"
    /\ tpc = [t \in Tasks |-> "new"]
    /\ task_metrics = [t \in Tasks |-> METRICS]
    /\ task_result = [t \in Tasks |-> "None"]
    /\ task_lock = [t \in Tasks |-> 0]
    /\ lock_holder = << >>
    /\ task_future = [t \in Tasks |-> NoFuture]
    /\ submit_error = [t \in Tasks |-> "None"]
    /\ csv_rows = << >>
    /\ wall_clock = [h \in Hosts |-> 0]
    /\ srun_exit = [t \in Tasks |-> << >>]

\* the `workers=` restriction submit_task hands to the Dask client
pilot_workers(pilot_scheduled) ==
    { w \in WorkerRoster : StartsWith(w, pilot_scheduled) }

\* an except clause that logs the error and falls through to `return task_future`
SubmitFailureSwallowed == [error |-> "None", future |-> NoFuture]

\* `except Exception as e: ...; raise PilotAPIException(...)`: the error leaves
\* submit_task and task_future (still None) is not returned
SubmitFailure == [error |-> "PilotAPIException", future |-> NoFuture]

\* submit_task: the cluster client is not there yet and get_client() gives None
SubmitNoClient(t) ==
    /\ tpc[t] = "new"
    /\ client = "None"
    /\ tpc' = [tpc EXCEPT ![t] = "rejected"]
    /\ submit_error' = [submit_error EXCEPT ![t] = SubmitFailure.error]
    /\ task_future' = [task_future EXCEPT ![t] = SubmitFailure.future]
    /\ UNCHANGED <<execution_engine, client, task_metrics, task_result, task_lock,
                   lock_holder, csv_rows>>
    /\ UNCHANGED <<wall_clock, srun_exit, notTaskVars>>

\* submit_task: builds task_metrics and the closure, hands it to the cluster client
SubmitTask(t, pilot) ==
    /\ tpc[t] = "new"
    /\ client' = "ready"
    /\ task_metrics' = [task_metrics EXCEPT ![t] =
           [METRICS EXCEPT !.task_id = <<"task", t>>, !.pilot_scheduled = pilot,
                           !.submit_time = wall_clock["client"], !.status = "RUNNING"]]
    /\ task_future' = [task_future EXCEPT ![t] =
           [state |-> "pending", value |-> "None",
            workers |-> IF execution_engine = "DASK" /\ pilot # ANY
                          THEN << pilot_workers(pilot) >>
                          ELSE << >>]]
    /\ tpc' = [tpc EXCEPT ![t] = "queued"]
    /\ UNCHANGED <<execution_engine, task_result, task_lock, lock_holder,
                   submit_error, csv_rows>>
    /\ UNCHANGED <<wall_clock, srun_exit, notTaskVars>>

\* the status task_func records for an outcome of the user function
StatusOf(o) == IF o.kind = "return" THEN "SUCCESS" ELSE "FAILED"

\* task_func up to the creation of its lock: calls the user function inside
\* try/except Exception, records the status, creates `lock = threading.Lock()`.
\* An exception that is not an Exception (SystemExit, KeyboardInterrupt) is not
\* caught: it leaves task_func at once and fails the future.
TaskFunc(t, o) ==
    /\ tpc[t] = "queued"
    /\ IF o.kind = "BaseException"
         THEN /\ tpc' = [tpc EXCEPT ![t] = "aborted"]
              /\ task_future' = [task_future EXCEPT ![t].state = "error",
                                                    ![t].value = o.msg]
              /\ UNCHANGED <<task_metrics, task_result, task_lock, lock_holder>>
         ELSE /\ task_result' = [task_result EXCEPT ![t] = o.value]
              /\ task_metrics' = [task_metrics EXCEPT
                     ![t].status = StatusOf(o),
                     ![t].error_msg = IF o.kind = "return" THEN "None" ELSE o.msg,
                     ![t].completion_time = wall_clock["worker"]]
              /\ task_lock' = [task_lock EXCEPT ![t] = Len(lock_holder) + 1]
              /\ lock_holder' = Append(lock_holder, 0)
              /\ tpc' = [tpc EXCEPT ![t] = "haslock"]
              /\ UNCHANGED task_future
    /\ UNCHANGED <<execution_engine, client, submit_error, csv_rows>>
    /\ UNCHANGED <<wall_clock, notTaskVars>>

\* task_func around a user function
RunUser(t, o) ==
    /\ TaskFunc(t, o)
    /\ UNCHANGED srun_exit

\* what the srun command of run_mpi_task can do: it is not there to be started,
\* or it runs and ends with an exit code
SrunRuns == [started : {TRUE}, returncode : 0..MaxExitCode]
            \cup { [started |-> FALSE, returncode |-> 0] }

\* run_mpi_task: subprocess.run(cmd, stdout=PIPE, stderr=PIPE, text=True), then
\* `return result.stdout, result.stderr`
run_mpi_task(proc) ==
    IF proc.started
      THEN [kind |-> "return", value |-> "v", msg |-> "None"]
      ELSE [kind |-> "Exception", value |-> "None", msg |-> "boom"]

\* task_func around run_mpi_task
RunMpi(t, proc) ==
    /\ TaskFunc(t, run_mpi_task(proc))
    /\ srun_exit' = [srun_exit EXCEPT ![t] = IF proc.started THEN << proc.returncode >>
                                                             ELSE << >>]


\* `with lock:` -- blocks until the lock object is free
AcquireLock(t) ==
    /\ tpc[t] = "haslock"
    /\ lock_holder[task_lock[t]] = 0
    /\ lock_holder' = [lock_holder EXCEPT ![task_lock[t]] = t]
    /\ tpc' = [tpc EXCEPT ![t] = "writing"]
    /\ UNCHANGED <<execution_engine, client, task_metrics, task_result, task_lock,
                   task_future, submit_error, csv_rows>>
    /\ UNCHANGED <<wall_clock, srun_exit, notTaskVars>>

\* open(metrics_fn, 'a') ... writer.writerow(task_metrics)
WriteRow(t) ==
    /\ tpc[t] = "writing"
    /\ csv_rows' = Append(csv_rows, task_metrics[t])
    /\ tpc' = [tpc EXCEPT ![t] = "written"]
    /\ UNCHANGED <<execution_engine, client, task_metrics, task_result, task_lock,
                   lock_holder, task_future, submit_error>>
    /\ UNCHANGED <<wall_clock, srun_exit, notTaskVars>>

\* what task_func does with a captured exception once the row is written
AfterRow(t) == [state |-> "finished", value |-> task_result[t]]

\* leaves `with lock:` and `return result`
ReturnResult(t) ==
    /\ tpc[t] = "written"
    /\ lock_holder' = [lock_holder EXCEPT ![task_lock[t]] = 0]
    /\ task_future' = [task_future EXCEPT ![t].state = AfterRow(t).state,
                                          ![t].value = AfterRow(t).value]
    /\ tpc' = [tpc EXCEPT ![t] = "done"]
    /\ UNCHANGED <<execution_engine, client, task_metrics, task_result, task_lock,
                   submit_error, csv_rows>>
    /\ UNCHANGED <<wall_clock, srun_exit, notTaskVars>>

\* time passes on a host
ClockTick(h) ==
    /\ wall_clock[h] < MaxClock
    /\ wall_clock' = [wall_clock EXCEPT ![h] = wall_clock[h] + 1]
    /\ UNCHANGED <<execution_engine, client, tpc, task_metrics, task_result, task_lock,
                   lock_holder, task_future, submit_error, csv_rows, srun_exit>>
    /\ UNCHANGED notTaskVars

\* a host's local wall clock is set back: a clock correction, or the hour that
\* local time repeats when daylight saving time ends (datetime.now() is naive
\* local time)
ClockSetBack(h) ==
    /\ wall_clock[h] > 0
    /\ wall_clock' = [wall_clock EXCEPT ![h] = wall_clock[h] - 1]
    /\ UNCHANGED <<execution_engine, client, tpc, task_metrics, task_result, task_lock,
                   lock_holder, task_future, submit_error, csv_rows, srun_exit>>
    /\ UNCHANGED notTaskVars

TasksNext ==
    \/ \E t \in Tasks : SubmitNoClient(t)
    \/ \E t \in Tasks, p \in PoolTags : SubmitTask(t, p)
    \/ \E t \in Tasks, o \in UserOutcomes : RunUser(t, o)
    \/ \E t \in Tasks : AcquireLock(t)
    \/ \E t \in Tasks : WriteRow(t)
    \/ \E t \in Tasks : ReturnResult(t)

\* submit_mpi_task: submit_task(run_mpi_task, num_procs, script_path, *args)
MpiNext ==
    \/ \E t \in Tasks : SubmitTask(t, ANY)
    \/ \E t \in Tasks, proc \in SrunRuns : RunMpi(t, proc)
    \/ \E t \in Tasks : AcquireLock(t)
    \/ \E t \in Tasks : WriteRow(t)
    \/ \E t \in Tasks : ReturnResult(t)

\* ------------------------------------------------------------------ SpecFutures
\* Futures as the cluster client hands them out (Dask future / Ray object ref):
\* pending until the task ends, then finished with the task's return value or
\* failed with its error.  get_results only ever calls .result() / ray.get().
Futures == 1..NFutures

\* the argument lists get_results is called with (a future may be listed twice)
RECURSIVE SeqsUpTo(_, _)
SeqsUpTo(S, n) ==
    IF n = 0 THEN { << >> }
    ELSE LET shorter == SeqsUpTo(S, n - 1)
         IN shorter \cup { Append(q, x) : q \in { r \in shorter : Len(r) = n - 1 }, x \in S }

FuturesInit ==
    /\ futures = [f \in Futures |-> [state |-> "pending", value |-> "None"]]
    /\ gr_pc = "idle"
    /\ gr_tasks = << >>
    /\ gr_i = 0
    /\ gr_results = << >>
    /\ wt_pc = "idle"
    /\ wt_tasks = << >>
    /\ wt_i = 0
    /\ wt_log = << >>

\* the task behind future f returns v
FutureFinishes(f, v) ==
    /\ futures[f].state = "pending"
    /\ futures' = [futures EXCEPT ![f] = [state |-> "finished", value |-> v]]
    /\ UNCHANGED <<grVars, wtVars>>
    /\ UNCHANGED notFutVars

\* the task behind future f raises, is cancelled or loses its worker
FutureFails(f) ==
    /\ futures[f].state = "pending"
    /\ futures' = [futures EXCEPT ![f] = [state |-> "error", value |-> "boom"]]
    /\ UNCHANGED <<grVars, wtVars>>
    /\ UNCHANGED notFutVars

\* get_results(tasks): results = []
GetResultsCall(tasks) ==
    /\ gr_pc = "idle"
    /\ gr_pc' = "loop"
    /\ gr_tasks' = tasks
    /\ gr_i' = 1
    /\ gr_results' = << >>
    /\ UNCHANGED <<futures, wtVars>>
    /\ UNCHANGED notFutVars

\* the except branch forgetting its append
ResultEntrySkipsFailed(f) ==
    IF futures[f].state = "error" THEN << >> ELSE << futures[f].value >>

\* what one iteration of the loop appends once task.result() has come back:
\* the result, or None from the except branch
ResultEntry(f) ==
    IF futures[f].state = "error" THEN << "None" >> ELSE << futures[f].value >>

\* one iteration: task.result() blocks until the future is terminal
GetResultsStep ==
    /\ gr_pc = "loop"
    /\ gr_i <= Len(gr_tasks)
    /\ futures[gr_tasks[gr_i]].state # "pending"
    /\ gr_results' = gr_results \o ResultEntry(gr_tasks[gr_i])
    /\ gr_i' = gr_i + 1
    /\ UNCHANGED <<futures, gr_pc, gr_tasks, wtVars>>
    /\ UNCHANGED notFutVars

\* return results
GetResultsReturn ==
    /\ gr_pc = "loop"
    /\ gr_i > Len(gr_tasks)
    /\ gr_pc' = "returned"
    /\ UNCHANGED <<futures, gr_tasks, gr_i, gr_results, wtVars>>
    /\ UNCHANGED notFutVars

\* wait_tasks(tasks)
WaitTasksCall(tasks) ==
    /\ wt_pc = "idle"
    /\ wt_pc' = "loop"
    /\ wt_tasks' = tasks
    /\ wt_i' = 1
    /\ wt_log' = << >>
    /\ UNCHANGED <<futures, grVars>>
    /\ UNCHANGED notFutVars

\* the except branch letting the error out of wait_tasks
WaitOutcomeReraises(f) ==
    IF futures[f].state = "error"
      THEN [pc |-> "raised", logged |-> << >>]
      ELSE [pc |-> "loop", logged |-> << >>]

\* what one iteration of wait_tasks does once task.result() has come back: the
\* result is dropped; an error is caught, logged, and the loop goes on
WaitOutcome(f) ==
    IF futures[f].state = "error"
      THEN [pc |-> "loop", logged |-> << f >>]
      ELSE [pc |-> "loop", logged |-> << >>]

\* one iteration: task.result() blocks until the future is terminal
WaitTasksStep ==
    /\ wt_pc = "loop"
    /\ wt_i <= Len(wt_tasks)
    /\ futures[wt_tasks[wt_i]].state # "pending"
    /\ wt_pc' = WaitOutcome(wt_tasks[wt_i]).pc
    /\ wt_log' = wt_log \o WaitOutcome(wt_tasks[wt_i]).logged
    /\ wt_i' = wt_i + 1
    /\ UNCHANGED <<futures, wt_tasks, grVars>>
    /\ UNCHANGED notFutVars

\* the end of the for loop: wait_tasks returns None
WaitTasksReturn ==
    /\ wt_pc = "loop"
    /\ wt_i > Len(wt_tasks)
    /\ wt_pc' = "returned"
    /\ UNCHANGED <<futures, wt_tasks, wt_i, wt_log, grVars>>
    /\ UNCHANGED notFutVars

FuturesNext ==
    \/ \E f \in Futures, v \in ReturnValues : FutureFinishes(f, v)
    \/ \E f \in Futures : FutureFails(f)
    \/ \E tasks \in SeqsUpTo(Futures, MaxArgs) : GetResultsCall(tasks)
    \/ GetResultsStep
    \/ GetResultsReturn

\* a caller that waits on its futures
WaitNext ==
    \/ \E f \in Futures, v \in ReturnValues : FutureFinishes(f, v)
    \/ \E f \in Futures : FutureFails(f)
    \/ \E tasks \in SeqsUpTo(Futures, MaxArgs) : WaitTasksCall(tasks)
    \/ WaitTasksStep
    \/ WaitTasksReturn

\* ------------------------------------------------------------------ Selector (scoring)
\* Suitability: enough qubits and every gate of the task available
Suitable(task, r) ==
    /\ r.qubit_count >= task.num_qubits
    /\ task.gate_set \subseteq r.gateset

\* fidelity / queue weights of the three optimization modes, in tenths
ModeWeights(mode) ==
    CASE mode = "high_fidelity" -> [f |-> 8, q |-> 2]
      [] mode = "balanced"      -> [f |-> 5, q |-> 5]
      [] mode = "high_speed"    -> [f |-> 2, q |-> 8]

\* a score that leaves the queue out
ResourceCostWithoutQueue(mode, r, queue) == ModeWeights(mode).f * r.error_rate

\* w_f * (1 - fidelity) + w_q * queue-utilization, error rate and utilization in
\* thousandths; a resource with no queue signal counts as utilization 0
ResourceCost(mode, r, queue) ==
    ModeWeights(mode).f * r.error_rate
      + ModeWeights(mode).q * (IF r.name \in DOMAIN queue THEN queue[r.name] ELSE 0)

\* select(task, catalogue, queue): index of the cheapest suitable resource, the
\* first in catalogue order on ties; 0 when none is suitable
ScoringSelect(mode, task, catalogue, queue) ==
    LET ok == { i \in DOMAIN catalogue : Suitable(task, catalogue[i]) }
    IN IF ok = {} THEN 0
       ELSE CHOOSE i \in ok :
              \A j \in ok :
                  \/ ResourceCost(mode, catalogue[i], queue) < ResourceCost(mode, catalogue[j], queue)
                  \/ /\ ResourceCost(mode, catalogue[i], queue) = ResourceCost(mode, catalogue[j], queue)
                     /\ i <= j

\* ------------------------------------------------------------------ SpecShim
Invocations == 1..NInvocations

Res(name, q, gates, err) ==
    [name |-> name, qubit_count |-> q, gateset |-> gates, error_rate |-> err]

\* the catalogue snapshots and tasks the dispatcher ships
ShimCatalogues ==
    { << Res(<<"p1", "_", "sim">>, 2, {"h", "cx"}, 5),
         Res(<<"p1", "_", "hw">>, 4, {"h", "cx"}, 1) >>,
      << Res(<<"p2", "_", "sim">>, 1, {"h"}, 0) >> }
ShimTasks == { [num_qubits |-> 2, gate_set |-> {"h", "cx"}] }

\* what execute_circuit can do
ExecOutcomes ==
    [kind : {"return"}, value : {"counts"}, msg : {"None"}]
      \cup [kind : {"Exception", "BaseException"}, value : {"None"}, msg : {"exec failed"}]

NoArgs == [task |-> [num_qubits |-> 0, gate_set |-> {}], resources |-> << >>]

ShimInit ==
    /\ WORKER_QDREAMER = 0
    /\ selectors = << >>
    /\ spc = [i \in Invocations |-> "new"]
    /\ shim_args = [i \in Invocations |-> NoArgs]
    /\ shim_metrics = [i \in Invocations |-> METRICS]
    /\ worker_qdreamer = [i \in Invocations |-> 0]
    /\ shim_result = [i \in Invocations |-> "None"]
    /\ shim_lock = [i \in Invocations |-> 0]
    /\ shim_future = [i \in Invocations |-> [state |-> "none", value |-> "None"]]

\* the except branch of quantum_execution_remote followed by the creation of
\* the lock: FAILED, the message, pilot_scheduled "unknown"
ShimFail(i, msg) ==
    /\ shim_metrics' = [shim_metrics EXCEPT ![i].status = "FAILED",
                                            ![i].error_msg = msg,
                                            ![i].pilot_scheduled = <<"unknown">>,
                                            ![i].completion_time = wall_clock["worker"]]
    /\ shim_lock' = [shim_lock EXCEPT ![i] = Len(lock_holder) + 1]
    /\ lock_holder' = Append(lock_holder, 0)
    /\ spc' = [spc EXCEPT ![i] = "haslock"]

\* the cluster client calls quantum_execution_remote(metrics_fn, task, resources):
\* task id, task_metrics with status RUNNING
ShimStart(i, task, resources) ==
    /\ spc[i] = "new"
    /\ shim_args' = [shim_args EXCEPT ![i] = [task |-> task, resources |-> resources]]
    /\ shim_metrics' = [shim_metrics EXCEPT ![i] =
           [METRICS EXCEPT !.task_id = <<"quantum", i>>,
                           !.submit_time = wall_clock["worker"], !.status = "RUNNING"]]
    /\ shim_future' = [shim_future EXCEPT ![i].state = "pending"]
    /\ spc' = [spc EXCEPT ![i] = "check"]
    /\ UNCHANGED <<WORKER_QDREAMER, selectors, worker_qdreamer, shim_result, shim_lock,
                   lock_holder, csv_rows>>
    /\ UNCHANGED <<wall_clock, srun_exit, notShimVars>>

\* _get_or_create_worker_qdreamer: `if _WORKER_QDREAMER is None`
GetOrCreateCheck(i) ==
    /\ spc[i] = "check"
    /\ IF WORKER_QDREAMER = 0
         THEN /\ spc' = [spc EXCEPT ![i] = "construct"]
              /\ UNCHANGED worker_qdreamer
         ELSE /\ worker_qdreamer' = [worker_qdreamer EXCEPT ![i] = WORKER_QDREAMER]
              /\ spc' = [spc EXCEPT ![i] = "select"]
    /\ UNCHANGED <<WORKER_QDREAMER, selectors, shim_args, shim_metrics, shim_result,
                   shim_lock, shim_future, lock_holder, csv_rows>>
    /\ UNCHANGED <<wall_clock, srun_exit, notShimVars>>

\* _get_or_create_worker_qdreamer: `_WORKER_QDREAMER = Q_DREAMER(config, resources)`
\* and `return _WORKER_QDREAMER`; the constructor may raise, which the shim's
\* except branch catches
GetOrCreateConstruct(i, ok) ==
    /\ spc[i] = "construct"
    /\ IF ok
         THEN /\ selectors' = Append(selectors,
                     [optimization_mode |-> "high_fidelity",
                      quantum_resources |-> shim_args[i].resources,
                      by |-> i])
              /\ WORKER_QDREAMER' = Len(selectors) + 1
              /\ worker_qdreamer' = [worker_qdreamer EXCEPT ![i] = Len(selectors) + 1]
              /\ spc' = [spc EXCEPT ![i] = "select"]
              /\ UNCHANGED <<shim_metrics, shim_lock, lock_holder>>
         ELSE /\ ShimFail(i, "Q_DREAMER failed")
              /\ UNCHANGED <<selectors, WORKER_QDREAMER, worker_qdreamer>>
    /\ UNCHANGED <<shim_args, shim_result, shim_future, csv_rows>>
    /\ UNCHANGED <<wall_clock, srun_exit, notShimVars>>

\* worker_qdreamer.get_best_resource(quantum_task, task_id) on the Selector the
\* invocation holds
BestResource(i) ==
    LET sel == selectors[worker_qdreamer[i]]
    IN ScoringSelect(sel.optimization_mode, shim_args[i].task, sel.quantum_resources, << >>)

\* select the resource; `if not best_resource: raise Exception(...)`
ShimSelect(i) ==
    /\ spc[i] = "select"
    /\ IF BestResource(i) = 0
         THEN ShimFail(i, "No suitable quantum resource found")
         ELSE /\ shim_metrics' = [shim_metrics EXCEPT ![i].pilot_scheduled =
                     selectors[worker_qdreamer[i]].quantum_resources[BestResource(i)].name]
              /\ spc' = [spc EXCEPT ![i] = "execute"]
              /\ UNCHANGED <<shim_lock, lock_holder>>
    /\ UNCHANGED <<WORKER_QDREAMER, selectors, shim_args, worker_qdreamer, shim_result,
                   shim_future, csv_rows>>
    /\ UNCHANGED <<wall_clock, srun_exit, notShimVars>>

\* execution_service.execute_circuit(...): SUCCESS, or the except branch; an
\* exception that is not an Exception leaves the shim at once
ShimExecute(i, o) ==
    /\ spc[i] = "execute"
    /\ CASE o.kind = "return" ->
              /\ shim_result' = [shim_result EXCEPT ![i] = o.value]
              /\ shim_metrics' = [shim_metrics EXCEPT ![i].status = "SUCCESS",
                                   ![i].completion_time = wall_clock["worker"]]
              /\ shim_lock' = [shim_lock EXCEPT ![i] = Len(lock_holder) + 1]
              /\ lock_holder' = Append(lock_holder, 0)
              /\ spc' = [spc EXCEPT ![i] = "haslock"]
              /\ UNCHANGED shim_future
         [] o.kind = "Exception" ->
              /\ ShimFail(i, o.msg)
              /\ UNCHANGED <<shim_result, shim_future>>
         [] o.kind = "BaseException" ->
              /\ spc' = [spc EXCEPT ![i] = "aborted"]
              /\ shim_future' = [shim_future EXCEPT ![i] = [state |-> "error", value |-> o.msg]]
              /\ UNCHANGED <<shim_result, shim_metrics, shim_lock, lock_holder>>
    /\ UNCHANGED <<WORKER_QDREAMER, selectors, shim_args, worker_qdreamer, csv_rows>>
    /\ UNCHANGED <<wall_clock, srun_exit, notShimVars>>

\* `with lock:`
ShimAcquireLock(i) ==
    /\ spc[i] = "haslock"
    /\ lock_holder[shim_lock[i]] = 0
    /\ lock_holder' = [lock_holder EXCEPT ![shim_lock[i]] = <<"quantum", i>>]
    /\ spc' = [spc EXCEPT ![i] = "writing"]
    /\ UNCHANGED <<WORKER_QDREAMER, selectors, shim_args, shim_metrics, worker_qdreamer,
                   shim_result, shim_lock, shim_future, csv_rows>>
    /\ UNCHANGED <<wall_clock, srun_exit, notShimVars>>

\* writer.writerow(task_metrics)
ShimWriteRow(i) ==
    /\ spc[i] = "writing"
    /\ csv_rows' = Append(csv_rows, shim_metrics[i])
    /\ spc' = [spc EXCEPT ![i] = "written"]
    /\ UNCHANGED <<WORKER_QDREAMER, selectors, shim_args, shim_metrics, worker_qdreamer,
                   shim_result, shim_lock, shim_future, lock_holder>>
    /\ UNCHANGED <<wall_clock, srun_exit, notShimVars>>

\* what the shim hands back once the row is written: `return result`
ShimOutcome(i) == [state |-> "finished", value |-> shim_result[i]]

\* leaves `with lock:` and returns
ShimReturn(i) ==
    /\ spc[i] = "written"
    /\ lock_holder' = [lock_holder EXCEPT ![shim_lock[i]] = 0]
    /\ shim_future' = [shim_future EXCEPT ![i] = ShimOutcome(i)]
    /\ spc' = [spc EXCEPT ![i] = "done"]
    /\ UNCHANGED <<WORKER_QDREAMER, selectors, shim_args, shim_metrics, worker_qdreamer,
                   shim_result, shim_lock, csv_rows>>
    /\ UNCHANGED <<wall_clock, srun_exit, notShimVars>>

ShimNext ==
    \/ \E i \in Invocations, task \in ShimTasks, resources \in ShimCatalogues :
          ShimStart(i, task, resources)
    \/ \E i \in Invocations : GetOrCreateCheck(i)
    \/ \E i \in Invocations, ok \in BOOLEAN : GetOrCreateConstruct(i, ok)
    \/ \E i \in Invocations : ShimSelect(i)
    \/ \E i \in Invocations, o \in ExecOutcomes : ShimExecute(i, o)
    \/ \E i \in Invocations : ShimAcquireLock(i)
    \/ \E i \in Invocations : ShimWriteRow(i)
    \/ \E i \in Invocations : ShimReturn(i)

\* one classical task and one shim invocation while the wall clocks of the two
\* hosts move
TimedNext ==
    \/ \E h \in Hosts : ClockTick(h)
    \/ \E h \in Hosts : ClockSetBack(h)
    \/ SubmitTask(1, ANY)
    \/ \E o \in UserOutcomes : RunUser(1, o)
    \/ AcquireLock(1)
    \/ WriteRow(1)
    \/ ReturnResult(1)
    \/ \E task \in ShimTasks, resources \in ShimCatalogues : ShimStart(1, task, resources)
    \/ GetOrCreateCheck(1)
    \/ \E ok \in BOOLEAN : GetOrCreateConstruct(1, ok)
    \/ ShimSelect(1)
    \/ \E o \in ExecOutcomes : ShimExecute(1, o)
    \/ ShimAcquireLock(1)
    \/ ShimWriteRow(1)
    \/ ShimReturn(1)

\* ------------------------------------------------------------------ cut planner
\* A circuit is the dict form get_cut_plan accepts: nodes, and edges (u, v, gate).
\* Only gates with a fixed overhead and gates outside the tables are drawn, so
\* theta is None throughout and is left out of the edge key.  Overheads are
\* whole numbers; cost = log(overhead) orders edges as the overhead does.
Range(q) == { q[i] : i \in DOMAIN q }

\* _gate_overhead: the fixed table; 0 stands for the ValueError of a gate that
\* is in neither table
gate_overhead(gate) ==
    CASE gate \in {"cx", "cz", "cy", "ch", "ecr"} -> 9
      [] gate \in {"iswap", "dcx"} -> 49
      [] OTHER -> 0

\* _build_edges: the edges whose gate has an overhead, in input order
build_edges(edges) == SelectSeq(edges, LAMBDA e : gate_overhead(e.gate) # 0)

\* the nodes joined to a node of S by the edges
RECURSIVE Grow(_, _)
Grow(S, edges) ==
    LET T == S \cup { e.v : e \in { x \in Range(edges) : x.u \in S } }
               \cup { e.u : e \in { x \in Range(edges) : x.v \in S } }
    IN IF T = S THEN S ELSE Grow(T, edges)

\* _components: DSU over the edges, then the nodes grouped by root in node
\* order: components in order of their first node, members in node order
components(nodes, edges) ==
    LET F[k \in 0..Len(nodes)] ==
            IF k = 0 THEN << >>
            ELSE LET groups == F[k - 1]
                 IN IF \E i \in DOMAIN groups : nodes[k] \in Range(groups[i])
                      THEN groups
                      ELSE LET root == Grow({nodes[k]}, edges)
                           IN Append(groups, SelectSeq(nodes, LAMBDA m : m \in root))
    IN F[Len(nodes)]

\* sorted(..., key=lambda e: e.cost): stable, cheapest first
SortByCost(edges) ==
    LET Insert(sorted, e) ==
            LET p == Cardinality({ i \in DOMAIN sorted :
                                     gate_overhead(sorted[i].gate) <= gate_overhead(e.gate) })
            IN SubSeq(sorted, 1, p) \o << e >> \o SubSeq(sorted, p + 1, Len(sorted))
        F[k \in 0..Len(edges)] == IF k = 0 THEN << >> ELSE Insert(F[k - 1], edges[k])
    IN F[Len(edges)]

\* _mst: Kruskal over the edges inside the node list c, cheapest first
mst(c, built) ==
    LET es == SortByCost(SelectSeq(built, LAMBDA e : e.u \in Range(c) /\ e.v \in Range(c)))
        T[k \in 0..Len(es)] ==
            IF k = 0 THEN << >>
            ELSE LET tree == T[k - 1]
                 IN IF es[k].v \in Grow({es[k].u}, tree) THEN tree
                    ELSE Append(tree, es[k])
    IN T[Len(es)]

\* _filter_active: the nodes of degree > 0 (the edges all stay: both ends are active)
filter_active(nodes, built) ==
    SelectSeq(nodes, LAMBDA n : \E e \in Range(built) : e.u = n \/ e.v = n)

\* the reversed key (e.v, e.u, e.gate, e.theta)
Reversed(e) == [u |-> e.v, v |-> e.u, gate |-> e.gate]

IsDisabled(e, disabled) == e \in disabled \/ Reversed(e) \in disabled

\* _rebuild_fragments: components over the edges that are not disabled
rebuild_fragments(nodes, built, disabled) ==
    components(nodes, SelectSeq(built, LAMBDA e : ~IsDisabled(e, disabled)))

\* sorted(fragments, key=len, reverse=True): stable, largest first
SortByLenDesc(fragments) ==
    LET Insert(sorted, f) ==
            LET p == Cardinality({ i \in DOMAIN sorted : Len(sorted[i]) >= Len(f) })
            IN SubSeq(sorted, 1, p) \o << f >> \o SubSeq(sorted, p + 1, Len(sorted))
        F[k \in 0..Len(fragments)] == IF k = 0 THEN << >> ELSE Insert(F[k - 1], fragments[k])
    IN F[Len(fragments)]

\* _assign_fragments_by_capacity: greedy first-fit, largest fragments first.
\* ok = FALSE stands for the None returned when a fragment fits nowhere;
\* placement maps the QPU numbers in use to the nodes placed there.
RECURSIVE Place(_, _, _, _)
Place(frags, k, caps, placement) ==
    IF k > Len(frags) THEN [ok |-> TRUE, placement |-> placement]
    ELSE LET fits == { i \in DOMAIN caps : Len(frags[k]) <= caps[i] }
         IN IF fits = {} THEN [ok |-> FALSE, placement |-> << >>]
            ELSE LET i == CHOOSE x \in fits : \A y \in fits : x <= y
                     old == IF i \in DOMAIN placement THEN placement[i] ELSE << >>
                 IN Place(frags, k + 1,
                          [caps EXCEPT ![i] = caps[i] - Len(frags[k])],
                          [q \in DOMAIN placement \cup {i} |->
                              IF q = i THEN old \o frags[k] ELSE placement[q]])

assign_fragments_by_capacity(fragments, capacities) ==
    Place(SortByLenDesc(fragments), 1, capacities, << >>)

\* int(c * tolerance) with tolerance = 1.2
WithTolerance(capacities) == [i \in DOMAIN capacities |-> (capacities[i] * 12) \div 10]

\* _capacity_ok: no capacities, or the first-fit into the widened bins succeeds
capacity_ok(fragments, qpu_capacities) ==
    IF qpu_capacities = << >> THEN TRUE
    ELSE assign_fragments_by_capacity(fragments, WithTolerance(qpu_capacities)).ok

\* log(.) in thousandths for the overheads of the table
LogScale == 1000
Ln9 == 2197
Ln49 == 3892

\* log(overhead) of a product of table overheads, in thousandths
RECURSIVE log_overhead(_)
log_overhead(overhead) ==
    IF overhead <= 1 THEN 0
    ELSE IF overhead % 49 = 0 THEN Ln49 + log_overhead(overhead \div 49)
    ELSE Ln9 + log_overhead(overhead \div 9)

\* _parallelism_score times 2 * qpus_count: F/Q up to Q fragments,
\* 1 + 0.5 (F - Q)/Q beyond
parallelism_score(fragments, qpus_count) ==
    LET num_frags == Len(fragments)
    IN IF num_frags = 0 THEN 0
       ELSE IF num_frags <= qpus_count THEN 2 * num_frags
       ELSE qpus_count + num_frags

\* _quality_score as the fraction n/d (of 1 / (2 * qpus_count)):
\* parallelism / log(overhead), or the parallelism itself when the log is 0
quality_score(fragments, overhead, qpus_count) ==
    [n |-> parallelism_score(fragments, qpus_count) * LogScale,
     d |-> IF log_overhead(overhead) > 0 THEN log_overhead(overhead) ELSE LogScale]

\* score > best_score
ScoreGreater(a, b) == a.n * b.d > b.n * a.d

\* best_score = -1.0, best_plan = None
NoScore == [n |-> -1, d |-> 1]
NoPlan == [set |-> FALSE, fragments |-> << >>, selected |-> << >>, overhead |-> 0]

\* the concatenation of the sequences of a sequence
Flatten(seqs) ==
    LET F[k \in 0..Len(seqs)] == IF k = 0 THEN << >> ELSE F[k - 1] \o seqs[k]
    IN F[Len(seqs)]

\* the _mst edges of every fragment that the filter lets through
TreeEdges(fragments, built, minLen) ==
    Flatten([i \in DOMAIN fragments |->
                IF Len(fragments[i]) >= minLen THEN mst(fragments[i], built) ELSE << >>])

\* the circuits get_cut_plan is called with
PlanQubits == 1..MaxQubits
\* gates of the exhaustive family: overhead 9, overhead 49, and a gate that is in
\* neither table
PlanGates == { "cx", "iswap", "swap" }
EdgeSpecs == { e \in [u : PlanQubits, v : PlanQubits, gate : PlanGates] : e.u < e.v }
Circuits ==
    [nodes : { [i \in PlanQubits |-> i] }, edges : SeqsUpTo(EdgeSpecs, MaxGates)]
\* qpu_capacities: << >> for None, or one capacity for each of n devices
CapacityLists == { << >>, <<1, 1>>, <<2, 2>>, <<2, 1>> }
\* max_overhead: << >> for None, << M >> for a cap
OverheadCaps == { << >>, <<0>>, <<9>> }

NoPlanDict == [kind |-> "None", number_of_cuts |-> 0, selected_cuts |-> << >>,
               total_overhead |-> 0, fragments |-> << >>, qpu_assignment |-> << >>,
               quality_score |-> NoScore, notes |-> FALSE]

PlannerInit ==
    /\ cp_pc = "idle"
    /\ cp_args = << >>
    /\ cp_nodes = << >>
    /\ cp_built = << >>
    /\ cp_candidates = << >>
    /\ cp_selected = << >>
    /\ cp_disabled = {}
    /\ cp_total_overhead = 1
    /\ cp_fragments = << >>
    /\ cp_best_plan = NoPlan
    /\ cp_best_score = NoScore
    /\ cp_visited = << >>
    /\ cp_plan = NoPlanDict

\* the state the planner is in, as it is scored and remembered
Visit(fragments, selected, overhead, args) ==
    [fragments |-> fragments, selected |-> selected, overhead |-> overhead,
     feasible |-> capacity_ok(fragments, args.qpu_capacities),
     score |-> quality_score(fragments, overhead, args.qpus_count)]

\* a best plan that is taken by score alone, without the capacity check
BestAfterIgnoresCapacity(visit, plan, score) ==
    IF ScoreGreater(visit.score, score)
      THEN [plan |-> [set |-> TRUE, fragments |-> visit.fragments,
                      selected |-> visit.selected, overhead |-> visit.overhead],
            score |-> visit.score]
      ELSE [plan |-> plan, score |-> score]

\* a best plan that keeps the overhead of the no-cut state
BestAfterStaleOverhead(visit, plan, score) ==
    IF visit.feasible /\ ScoreGreater(visit.score, score)
      THEN [plan |-> [set |-> TRUE, fragments |-> visit.fragments,
                      selected |-> visit.selected, overhead |-> 1],
            score |-> visit.score]
      ELSE [plan |-> plan, score |-> score]

\* a best plan that is also replaced by a state of equal score
BestAfterReplacesOnTie(visit, plan, score) ==
    IF visit.feasible /\ ~ScoreGreater(score, visit.score)
      THEN [plan |-> [set |-> TRUE, fragments |-> visit.fragments,
                      selected |-> visit.selected, overhead |-> visit.overhead],
            score |-> visit.score]
      ELSE [plan |-> plan, score |-> score]

\* `if _capacity_ok(fragments): score = ...; if score > best_score: best_plan = ...`
BestAfter(visit, plan, score) ==
    IF visit.feasible /\ ScoreGreater(visit.score, score)
      THEN [plan |-> [set |-> TRUE, fragments |-> visit.fragments,
                      selected |-> visit.selected, overhead |-> visit.overhead],
            score |-> visit.score]
      ELSE [plan |-> plan, score |-> score]

\* get_cut_plan up to the while loop: the qpus_count check, build, the
\* active-only filter (with the trivial plan), components, the tree edges, and
\* the scoring of the no-cut state
PlanCall(args) ==
    /\ cp_pc = "idle"
    /\ cp_args' = args
    /\ LET built == build_edges(args.circuit.edges)
           active == filter_active(args.circuit.nodes, built)
           nodes == IF args.active_only THEN active ELSE args.circuit.nodes
           comps == components(nodes, built)
           first == Visit(comps, << >>, 1, args)
           best == BestAfter(first, NoPlan, NoScore)
       IN IF args.qpus_count <= 0
            THEN /\ cp_pc' = "raised"
                 /\ UNCHANGED <<cp_nodes, cp_built, cp_candidates, cp_selected, cp_disabled,
                                cp_total_overhead, cp_fragments, cp_best_plan, cp_best_score,
                                cp_visited, cp_plan>>
          ELSE IF args.active_only /\ active = << >>
            THEN /\ cp_pc' = "returned"
                 /\ cp_plan' = [NoPlanDict EXCEPT
                        !.kind = "trivial",
                        !.total_overhead = 1,
                        !.fragments = [i \in DOMAIN args.circuit.nodes |->
                                          << args.circuit.nodes[i] >>],
                        !.qpu_assignment = (1 :> args.circuit.nodes),
                        !.notes = TRUE]
                 /\ UNCHANGED <<cp_nodes, cp_built, cp_candidates, cp_selected, cp_disabled,
                                cp_total_overhead, cp_fragments, cp_best_plan, cp_best_score,
                                cp_visited>>
          ELSE /\ cp_pc' = "loop"
               /\ cp_nodes' = nodes
               /\ cp_built' = built
               /\ cp_candidates' = SortByCost(TreeEdges(comps, built, 0))
               /\ cp_selected' = << >>
               /\ cp_disabled' = {}
               /\ cp_total_overhead' = 1
               /\ cp_fragments' = comps
               /\ cp_best_plan' = best.plan
               /\ cp_best_score' = best.score
               /\ cp_visited' = << first >>
               /\ UNCHANGED cp_plan
    /\ UNCHANGED notPlanVars

\* a cap check that lets one more cx cut through
ExceedsCapByOneCut(new_overhead, max_overhead) ==
    max_overhead # << >> /\ new_overhead > max_overhead[1] * 9

\* `if max_overhead is not None and new_overhead > max_overhead: continue`
ExceedsCap(new_overhead, max_overhead) ==
    max_overhead # << >> /\ new_overhead > max_overhead[1]

\* a pop that puts the candidate back at the end of the list
PopToBack(candidates) == Append(Tail(candidates), Head(candidates))

\* what is left of candidates after `e = candidates.pop(0)`
AfterPop(candidates) == Tail(candidates)

\* one iteration of `while candidates:`
PlanStep ==
    /\ cp_pc = "loop"
    /\ cp_candidates # << >>
    /\ LET e == Head(cp_candidates)
           rest == AfterPop(cp_candidates)
           new_overhead == cp_total_overhead * gate_overhead(e.gate)
       IN IF \/ IsDisabled(e, cp_disabled)
             \/ ExceedsCap(new_overhead, cp_args.max_overhead)
            THEN \* continue
                 /\ cp_candidates' = rest
                 /\ UNCHANGED <<cp_pc, cp_selected, cp_disabled, cp_total_overhead,
                                cp_fragments, cp_best_plan, cp_best_score, cp_visited>>
            ELSE LET disabled == cp_disabled \cup {e}
                     selected == Append(cp_selected, e)
                     fragments == rebuild_fragments(cp_nodes, cp_built, disabled)
                     visit == Visit(fragments, selected, new_overhead, cp_args)
                     best == BestAfter(visit, cp_best_plan, cp_best_score)
                     more_candidates ==
                         SelectSeq(TreeEdges(fragments, cp_built, 2),
                                   LAMBDA x : ~IsDisabled(x, disabled))
                 IN /\ cp_disabled' = disabled
                    /\ cp_selected' = selected
                    /\ cp_total_overhead' = new_overhead
                    /\ cp_fragments' = fragments
                    /\ cp_best_plan' = best.plan
                    /\ cp_best_score' = best.score
                    /\ cp_visited' = Append(cp_visited, visit)
                    /\ cp_candidates' = SortByCost(rest \o more_candidates)
                    /\ cp_pc' = IF Len(fragments) >= cp_args.qpus_count * 2
                                     /\ new_overhead > 100
                                  THEN "finish" ELSE "loop"
    /\ UNCHANGED <<cp_args, cp_nodes, cp_built, cp_plan>>
    /\ UNCHANGED notPlanVars

\* the fragments dealt round-robin onto qpus_count devices
RoundRobinAssignment(fragments, qpus_count) ==
    LET used == { ((i - 1) % qpus_count) + 1 : i \in DOMAIN fragments }
    IN [q \in used |->
           Flatten([i \in DOMAIN fragments |->
                       IF ((i - 1) % qpus_count) + 1 = q THEN fragments[i] ELSE << >>])]

\* after the loop: the infeasible plan when best_plan is None, else the best
\* plan with its QPU assignment
PlanReturn ==
    /\ \/ cp_pc = "finish"
       \/ cp_pc = "loop" /\ cp_candidates = << >>
    /\ cp_pc' = "returned"
    /\ cp_plan' =
          IF ~cp_best_plan.set
            THEN [kind |-> "infeasible",
                  number_of_cuts |-> Len(cp_selected),
                  selected_cuts |-> cp_selected,
                  total_overhead |-> cp_total_overhead,
                  fragments |-> cp_fragments,
                  qpu_assignment |-> << >>,
                  quality_score |-> NoScore,
                  notes |-> TRUE]
            ELSE [kind |-> "feasible",
                  number_of_cuts |-> Len(cp_best_plan.selected),
                  selected_cuts |-> cp_best_plan.selected,
                  total_overhead |-> cp_best_plan.overhead,
                  fragments |-> cp_best_plan.fragments,
                  qpu_assignment |->
                      IF cp_args.qpu_capacities # << >>
                        THEN assign_fragments_by_capacity(cp_best_plan.fragments,
                                                          cp_args.qpu_capacities).placement
                        ELSE RoundRobinAssignment(cp_best_plan.fragments,
                                                  cp_args.qpus_count),
                  quality_score |-> cp_best_score,
                  notes |-> TRUE]
    /\ UNCHANGED <<cp_args, cp_nodes, cp_built, cp_candidates, cp_selected, cp_disabled,
                   cp_total_overhead, cp_fragments, cp_best_plan, cp_best_score, cp_visited>>
    /\ UNCHANGED notPlanVars

\* a circuit on qubits 1..n
Circuit(n, edges) == [nodes |-> [i \in 1..n |-> i], edges |-> edges]
Gate(gate, u, v) == [u |-> u, v |-> v, gate |-> gate]
Args(circuit, qpus_count, qpu_capacities, max_overhead, active_only) ==
    [circuit |-> circuit, qpus_count |-> qpus_count, qpu_capacities |-> qpu_capacities,
     max_overhead |-> max_overhead, active_only |-> active_only]

\* a path of cx gates over qubits 1..n
Chain(n) == Circuit(n, [i \in 1..(n - 1) |-> Gate("cx", i, i + 1)])

\* calls outside the small exhaustive family
NamedPlanArgs ==
    { Args(Chain(3), 0, << >>, << >>, TRUE),
      Args(Chain(6), 1, <<5>>, << >>, TRUE),
      Args(Chain(6), 2, <<5, 1>>, << >>, TRUE),
      Args(Chain(5), 1, <<1, 1, 1, 1, 1>>, << >>, TRUE),
      Args(Chain(4), 2, <<2, 1, 1>>, <<81>>, TRUE),
      Args(Circuit(4, << Gate("cx", 1, 2), Gate("iswap", 2, 3) >>), 2, << >>, << >>, FALSE),
      Args(Circuit(4, << Gate("cx", 1, 2), Gate("swap", 3, 4) >>), 2, <<2, 2>>, << >>, FALSE),
      Args(Circuit(3, << >>), 2, << >>, <<0>>, FALSE),
      Args(Circuit(3, << Gate("cx", 1, 2), Gate("cx", 2, 1), Gate("cx", 1, 2) >>),
           2, <<1, 1>>, << >>, TRUE),
      Args(Circuit(3, << Gate("cx", 1, 2), Gate("cz", 1, 2), Gate("cx", 2, 3) >>),
           5, <<2, 2>>, << >>, TRUE),
      Args(Circuit(3, << Gate("cx", 1, 2), Gate("cx", 2, 3), Gate("cx", 1, 3) >>),
           5, <<2, 2>>, << >>, TRUE),
      Args(Circuit(5, << Gate("iswap", 1, 2), Gate("cx", 2, 3), Gate("cz", 3, 1),
                         Gate("cx", 3, 4), Gate("iswap", 4, 5) >>), 3, <<2, 2, 2>>, << >>, TRUE),
      Args(Circuit(5, << Gate("iswap", 1, 2), Gate("cx", 2, 3), Gate("cz", 3, 1),
                         Gate("cx", 3, 4), Gate("iswap", 4, 5) >>), 2, << >>, <<81>>, TRUE) }

PlanArgs ==
    [circuit : Circuits, qpus_count : {1, 2}, qpu_capacities : CapacityLists,
     max_overhead : OverheadCaps, active_only : {TRUE}]
      \cup NamedPlanArgs

PlannerNext ==
    \/ \E args \in (IF cp_pc = "idle" THEN PlanArgs ELSE {}) : PlanCall(args)
    \/ PlanStep
    \/ PlanReturn

\* ------------------------------------------------------------------ SpecSelector
\* the resources a catalogue is drawn from, and the tasks selected for
ResourcePool ==
    { Res(<<"r1">>, 1, {"h"}, 5),
      Res(<<"r2">>, 3, {"h", "cx"}, 1),
      Res(<<"r3">>, 3, {"h", "cx", "rz"}, 1) }
SelectorTasks ==
    { [num_qubits |-> 1, gate_set |-> {"h"}],
      [num_qubits |-> 2, gate_set |-> {"h", "cx"}],
      [num_qubits |-> 4, gate_set |-> {"rz"}] }

\* a dict holds each name once
Catalogues ==
    { c \in SeqsUpTo(ResourcePool, MaxCatalogue) :
        \A i, j \in DOMAIN c : i # j => c[i].name # c[j].name }

DreamerStrategyType == { "least_error_rate", "round_robin", "least_busy" }

\* the threads of one worker process, all holding the same strategy object
Threads == 1..NThreads

\* a thread that is not inside select_resource
NoSelectCall == [pc |-> "idle", task |-> 0, resource |-> 0, loaded |-> 0]

\* Q_DREAMER(quantum_resources, dreamer_type); RoundRobinStrategy starts at 0
SelectorInit ==
    /\ dreamer_resources \in Catalogues
    /\ strategy_type \in DreamerStrategyType
    /\ current_index = 0
    /\ selections = << >>
    /\ select_calls = [th \in Threads |-> NoSelectCall]

\* RoundRobinStrategy: resource_list[self.current_index % len(resource_list)]
RoundRobinPick(index, n) == (index % n) + 1

\* the rotation stepping over an entry
AdvanceIndexByTwo(index) == index + 2

\* RoundRobinStrategy: self.current_index += 1
AdvanceIndex(index) == index + 1

\* LeastErrorRateStrategy: min(resources.values(), key=error_rate), the first
\* minimum in insertion order
LeastErrorRatePick(resources) ==
    CHOOSE i \in DOMAIN resources :
        \A j \in DOMAIN resources :
            \/ resources[i].error_rate < resources[j].error_rate
            \/ resources[i].error_rate = resources[j].error_rate /\ i <= j

\* LeastBusyStrategy: list(resources.values())[0]
LeastBusyPick(resources) == 1

\* select_resource(task, resources) of the strategy in use: the position of the
\* resource returned, 0 for None
select_resource(strategy, task, resources, index) ==
    IF Len(resources) = 0 THEN 0
    ELSE CASE strategy = "round_robin" -> RoundRobinPick(index, Len(resources))
           [] strategy = "least_error_rate" -> LeastErrorRatePick(resources)
           [] strategy = "least_busy" -> LeastBusyPick(resources)

\* one select_resource call through the Selector's strategy object
StrategySelect(task) ==
    /\ Len(selections) < MaxSelections
    /\ selections' = Append(selections,
           [task |-> task,
            pick |-> select_resource(strategy_type, task, dreamer_resources, current_index)])
    /\ current_index' = IF strategy_type = "round_robin" /\ Len(dreamer_resources) > 0
                          THEN AdvanceIndex(current_index)
                          ELSE current_index
    /\ UNCHANGED <<dreamer_resources, strategy_type, select_calls>>

SelectResource(task) == StrategySelect(task) /\ UNCHANGED notSelVars

SelectorNext == \E task \in SelectorTasks : SelectResource(task)

\* ------------------------------------------------------------------ SpecRoundRobin
\* RoundRobinStrategy.select_resource called from several threads on one
\* strategy object.  Nothing locks the object, so a thread can be preempted
\* between reading self.current_index for the subscript, reading it again for
\* `+= 1` and storing the sum.

\* the strategy does not look at the task: one task stands for all
RoundRobinTasks == { task \in SelectorTasks : task.num_qubits = 1 }

\* select_resource, up to the subscript: `if not resources: return None`, then
\* resource = resource_list[self.current_index % len(resource_list)]
RoundRobinRead(th, task) ==
    /\ select_calls[th].pc = "idle"
    /\ Len(selections) + Cardinality({ o \in Threads : select_calls[o].pc # "idle" })
          < MaxConcurrentCalls
    /\ IF Len(dreamer_resources) = 0
         THEN /\ selections' = Append(selections, [task |-> task, pick |-> 0])
              /\ UNCHANGED select_calls
         ELSE /\ select_calls' =
                    [select_calls EXCEPT ![th] =
                        [pc |-> "picked", task |-> task,
                         resource |-> RoundRobinPick(current_index, Len(dreamer_resources)),
                         loaded |-> 0]]
              /\ UNCHANGED selections
    /\ UNCHANGED <<dreamer_resources, strategy_type, current_index>>
    /\ UNCHANGED notSelVars

\* self.current_index += 1, the load of the attribute
RoundRobinLoad(th) ==
    /\ select_calls[th].pc = "picked"
    /\ select_calls' = [select_calls EXCEPT ![th].pc = "loaded",
                                            ![th].loaded = current_index]
    /\ UNCHANGED <<dreamer_resources, strategy_type, current_index, selections>>
    /\ UNCHANGED notSelVars

\* self.current_index += 1, the store of the sum; then `return resource`
RoundRobinStore(th) ==
    /\ select_calls[th].pc = "loaded"
    /\ current_index' = AdvanceIndex(select_calls[th].loaded)
    /\ selections' = Append(selections, [task |-> select_calls[th].task,
                                         pick |-> select_calls[th].resource])
    /\ select_calls' = [select_calls EXCEPT ![th] = NoSelectCall]
    /\ UNCHANGED <<dreamer_resources, strategy_type>>
    /\ UNCHANGED notSelVars

RoundRobinNext ==
    \E th \in Threads :
        \/ \E task \in RoundRobinTasks : RoundRobinRead(th, task)
        \/ RoundRobinLoad(th)
        \/ RoundRobinStore(th)

\* ------------------------------------------------------------------ SpecService
PilotNames == { <<"p1">>, <<"p2">> }

\* pilot descriptions: classical, quantum with one of the executors, or quantum
\* with no `quantum` sub-map
PilotDescriptions ==
    [resource_type : {"classical"}, executor : {"None"}]
      \cup [resource_type : {"quantum"}, executor : {"None", "qiskit_local", "ibmq"}]

\* the backends QuantumResourceGenerator caches at construction
\* (self.quantum_resources = self._get_quantum_resources())
FakeBackends == { <<"fake", "_", "a">> }
CachedRef(local) == <<"cached", 0, << >>, local>>

\* get_quantum_resources(executor, config) called for `pilot` during the n-th
\* initialize_dreamer: the (key, object) items of the dict it returns.
\* qiskit_local builds new QuantumResource objects on every call; an executor
\* name the generator does not know ('ibmq' is not 'ibmq_...') falls back to
\* _get_fake_backend_resources, which returns the cached dict itself.
get_quantum_resources(executor, pilot, n) ==
    IF executor = "qiskit_local"
      THEN << [key |-> <<"qiskit", "_", "aer">>,
               ref |-> <<"new", n, pilot, <<"qiskit", "_", "aer">>>>],
              [key |-> <<"qiskit", "_", "basicaer">>,
               ref |-> <<"new", n, pilot, <<"qiskit", "_", "basicaer">>>>] >>
      ELSE LET b == CHOOSE x \in FakeBackends : TRUE
           IN << [key |-> b, ref |-> CachedRef(b)] >>

\* d[key] = value on an insertion-ordered dict kept as a sequence of items
DictSet(d, key, value) ==
    IF \E i \in DOMAIN d : d[i].key = key
      THEN [i \in DOMAIN d |-> IF d[i].key = key THEN [key |-> key, ref |-> value] ELSE d[i]]
      ELSE Append(d, [key |-> key, ref |-> value])

DictKeys(d) == { d[i].key : i \in DOMAIN d }
DictGet(d, key) == d[CHOOSE i \in DOMAIN d : d[i].key = key].ref

\* f"{pilot_name}_{resource_name}"
PrefixedName(pilot_name, name) == pilot_name \o <<"_">> \o name

\* obj.name = name
SetName(names, ref, name) ==
    [r \in DOMAIN names \cup {ref} |-> IF r = ref THEN name ELSE names[r]]

ServiceInit ==
    /\ pilots = << >>
    /\ jobs = << >>
    /\ quantum_resources = << >>
    /\ resource_name = [r \in { CachedRef(b) : b \in FakeBackends } |-> r[4]]
    /\ qdreamer = << >>
    /\ dreamer_enabled = FALSE
    /\ init_calls = 0
    /\ quantum_submits = << >>
    /\ last_call = [op |-> "__init__", raised |-> "None"]

\* create_pilot(description): submit_pilot gives a batch job; the pilot is
\* stored under its name
CreatePilot(name, desc) ==
    /\ Len(jobs) < MaxPilotJobs
    /\ jobs' = Append(jobs, [cancelled |-> FALSE])
    /\ pilots' = DictSet(pilots, name, [desc |-> desc, batch_job |-> Len(jobs) + 1])
    /\ last_call' = [op |-> "create_pilot", raised |-> "None"]
    /\ UNCHANGED <<quantum_resources, resource_name, qdreamer, dreamer_enabled, init_calls,
                   quantum_submits, execution_engine, client>>
    /\ UNCHANGED notSvcVars

\* a batch job's cancel(): the job is cancelled
JobCancel(job) == [job EXCEPT !.cancelled = TRUE]

\* the cluster manager's cancel(): `if self.pilot_job: self.pilot_job.cancel()`.
\* The manager holds the job of its latest submit_pilot, the last of jobs.
ManagerCancel(js) ==
    IF Len(js) > 0 THEN [js EXCEPT ![Len(js)] = JobCancel(js[Len(js)])] ELSE js

\* a pilot cancel that starts its batch job again when the job is cancelled already
PilotCancelToggles(js, pilot) ==
    LET managed == ManagerCancel(js)
    IN [managed EXCEPT ![pilot.batch_job] =
                           [cancelled |-> ~managed[pilot.batch_job].cancelled]]

\* PilotCompute.cancel(): the cluster manager, then the pilot's batch job
PilotCancel(js, pilot) ==
    LET managed == ManagerCancel(js)
    IN [managed EXCEPT ![pilot.batch_job] = JobCancel(managed[pilot.batch_job])]

\* cancel() of the service: the cluster manager, then every pilot of the
\* registry in its order
Cancel ==
    /\ LET C[k \in 0..Len(pilots)] ==
                IF k = 0 THEN ManagerCancel(jobs) ELSE PilotCancel(C[k - 1], pilots[k].ref)
       IN jobs' = C[Len(pilots)]
    /\ last_call' = [op |-> "cancel", raised |-> "None", after |-> last_call.op]
    /\ UNCHANGED <<pilots, quantum_resources, resource_name, qdreamer, dreamer_enabled,
                   init_calls, quantum_submits, execution_engine, client>>
    /\ UNCHANGED notSvcVars

\* pilots are created and the service is cancelled, in any order
CancelNext ==
    \/ \E name \in PilotNames, desc \in PilotDescriptions : CreatePilot(name, desc)
    \/ Cancel

\* the names of the quantum pilots, in registry order
\* the names of all pilots, whatever their resource_type
AllPilotNames == [i \in DOMAIN pilots |-> pilots[i].key]

QuantumPilotNames ==
    LET idx == { i \in DOMAIN pilots : pilots[i].ref.desc.resource_type = "quantum" }
        F[k \in 0..Len(pilots)] ==
            IF k = 0 THEN << >>
            ELSE IF k \in idx THEN Append(F[k - 1], pilots[k].key) ELSE F[k - 1]
    IN F[Len(pilots)]

\* the inner loop of initialize_dreamer for one pilot: every item of the
\* generator's dict goes in under the prefixed name, and the object is renamed
RECURSIVE AddResources(_, _, _, _)
AddResources(acc, pilot_name, items, k) ==
    IF k > Len(items) THEN acc
    ELSE LET prefixed_name == PrefixedName(pilot_name, items[k].key)
         IN AddResources(
                [catalogue |-> DictSet(acc.catalogue, prefixed_name, items[k].ref),
                 names |-> SetName(acc.names, items[k].ref, prefixed_name)],
                pilot_name, items, k + 1)

\* the outer loop of initialize_dreamer over the quantum pilots
RECURSIVE CollectResources(_, _, _, _)
CollectResources(acc, names, k, n) ==
    IF k > Len(names) THEN acc
    ELSE LET desc == DictGet(pilots, names[k]).desc
         IN IF desc.executor = "None"
              THEN CollectResources(acc, names, k + 1, n)
              ELSE CollectResources(
                       AddResources(acc, names[k],
                                    get_quantum_resources(desc.executor, names[k], n), 1),
                       names, k + 1, n)

\* initialize_dreamer(config); ctor_ok: whether Q_DREAMER(config, resources)
\* constructs or raises
InitializeDreamer(ctor_ok) ==
    /\ init_calls < MaxInitCalls
    /\ init_calls' = init_calls + 1
    /\ LET collected == CollectResources(
                            [catalogue |-> << >>, names |-> resource_name],
                            QuantumPilotNames, 1, init_calls + 1)
       IN IF QuantumPilotNames = << >>
            THEN /\ quantum_resources' = << >>
                 /\ last_call' = [op |-> "initialize_dreamer", raised |-> "NoQuantumPilots"]
                 /\ UNCHANGED <<resource_name, qdreamer, dreamer_enabled>>
            ELSE /\ quantum_resources' = collected.catalogue
                 /\ resource_name' = collected.names
                 /\ IF collected.catalogue = << >>
                      THEN /\ last_call' = [op |-> "initialize_dreamer", raised |-> "NoResources"]
                           /\ UNCHANGED <<qdreamer, dreamer_enabled>>
                      ELSE IF ~ctor_ok
                        THEN /\ last_call' = [op |-> "initialize_dreamer", raised |-> "ValueError"]
                             /\ UNCHANGED <<qdreamer, dreamer_enabled>>
                        ELSE /\ qdreamer' = << [quantum_resources |-> collected.catalogue] >>
                             /\ dreamer_enabled' = TRUE
                             /\ last_call' = [op |-> "initialize_dreamer", raised |-> "None"]
    /\ UNCHANGED <<pilots, jobs, quantum_submits, execution_engine, client>>
    /\ UNCHANGED notSvcVars

\* the guard at the top of submit_quantum_task
NotInitializedGuard == dreamer_enabled /\ qdreamer = << >>

\* submit_quantum_task(quantum_task): the guard, then the task and
\* self.quantum_resources go to the cluster client (Ray needs no client object;
\* with Dask, self.client.submit fails on a client that is still None)
SubmitQuantumTask(task) ==
    /\ Len(quantum_submits) < MaxQuantumSubmits
    /\ LET outcome == IF NotInitializedGuard THEN "PilotAPIException"
                      ELSE IF execution_engine = "DASK" /\ client = "None"
                             THEN "AttributeError"
                             ELSE "shipped"
       IN /\ quantum_submits' = Append(quantum_submits,
                 [task |-> task, initialized |-> dreamer_enabled, outcome |-> outcome,
                  resources |-> quantum_resources])
          /\ last_call' = [op |-> "submit_quantum_task",
                           raised |-> IF outcome = "shipped" THEN "None" ELSE outcome]
    /\ UNCHANGED <<pilots, jobs, quantum_resources, resource_name, qdreamer, dreamer_enabled,
                   init_calls, execution_engine, client>>
    /\ UNCHANGED notSvcVars

\* a classical submit_task, which is what binds self.client
ServiceSubmitTask ==
    /\ tpc[1] = "new"
    /\ \/ SubmitTask(1, ANY)
       \/ SubmitNoClient(1)

ServiceNext ==
    \/ \E name \in PilotNames, desc \in PilotDescriptions : CreatePilot(name, desc)
    \/ \E ctor_ok \in BOOLEAN : InitializeDreamer(ctor_ok)
    \/ \E task \in ShimTasks : SubmitQuantumTask(task)
    \/ ServiceSubmitTask

\* ------------------------------------------------------------------ specifications
\* the classical side when it is not the part under study
TasksIdle == TasksInit /\ execution_engine = "DASK"

\* the Selector when it is not the part under study
SelectorIdle ==
    SelectorInit /\ dreamer_resources = << >> /\ strategy_type = "least_error_rate"

\* no function has been called on its own yet
NoCall == [fn |-> "None"]
CallInit == returned = NoCall

\* ------------------------------------------------------------------ SpecScoring
\* the scoring Selector called on its own: the modes, catalogues, tasks and
\* queue signals it is called with (error rate and utilization in thousandths)
OptimizationModes == { "high_fidelity", "balanced", "high_speed" }
ScoringPool ==
    { Res(<<n>>, q, {"h", "cx"}, err) :
        n \in {"r1", "r2", "r3"}, q \in {1, 3}, err \in {1, 5} }
ScoringCatalogues ==
    { c \in SeqsUpTo(ScoringPool, MaxCatalogue) :
        \A i, j \in DOMAIN c : i # j => c[i].name # c[j].name }
ScoringTasks == { [num_qubits |-> 2, gate_set |-> {"h", "cx"}] }
\* a queue signal for some of the resources, none for the others
QueueSignals ==
    { [ n \in names |-> IF n \in busy THEN 900 ELSE 100 ] :
        names \in SUBSET { <<"r1">>, <<"r2">>, <<"r3">> },
        busy \in SUBSET { <<"r1">>, <<"r2">>, <<"r3">> } }

\* the utilization the score uses for a resource
QueueUtilization(r, queue) == IF r.name \in DOMAIN queue THEN queue[r.name] ELSE 0

\* select(task, catalogue, queue) of a Selector configured with the mode
Select(mode, task, catalogue, queue) ==
    /\ returned' = [fn |-> "select",
                    args |-> [mode |-> mode, task |-> task, catalogue |-> catalogue,
                              queue |-> queue],
                    value |-> ScoringSelect(mode, task, catalogue, queue),
                    raised |-> "None"]
    /\ UNCHANGED notCallVars

\* one call in a behaviour
ScoringNext ==
    /\ returned = NoCall
    /\ \E mode \in OptimizationModes, task \in ScoringTasks,
          catalogue \in ScoringCatalogues, queue \in QueueSignals :
           Select(mode, task, catalogue, queue)

\* ------------------------------------------------------------------ SpecLeastError
\* QuantumResource(name, qubit_count, gateset, error_rate) of pilot/dreamer.py:
\* the error rate is stored as given, << >> for None and << e >> for the float e
QuantumResource(name, qubit_count, gateset, error_rate) ==
    [name |-> name, qubit_count |-> qubit_count, gateset |-> gateset,
     error_rate |-> error_rate]

\* catalogues whose resources may have no error rate
OptionalRates == { << >>, <<0>>, <<1>>, <<5>> }
OptionalRateCatalogues ==
    { c \in SeqsUpTo({ QuantumResource(<<n>>, 3, {"h", "cx"}, e) :
                         n \in {"r1", "r2", "r3"}, e \in OptionalRates }, MaxCatalogue) :
        \A i, j \in DOMAIN c : i # j => c[i].name # c[j].name }

\* Python's a < b on two error rates: None is not ordered against a float or
\* against None
RateLess(a, b) ==
    IF a = << >> \/ b = << >> THEN "TypeError"
    ELSE IF a[1] < b[1] THEN "True" ELSE "False"

\* min(resources.values(), key=lambda x: x.error_rate): the first value is the
\* candidate, each later value replaces it when its key is less than the
\* candidate's; a comparison that raises ends the call
MinByErrorRate(resources) ==
    LET M[k \in 1..Len(resources)] ==
            IF k = 1 THEN [raised |-> "None", pick |-> 1]
            ELSE LET before == M[k - 1]
                 IN IF before.raised # "None" THEN before
                    ELSE LET less == RateLess(resources[k].error_rate,
                                              resources[before.pick].error_rate)
                         IN IF less = "TypeError" THEN [raised |-> "TypeError", pick |-> 0]
                            ELSE IF less = "True" THEN [raised |-> "None", pick |-> k]
                            ELSE before
    IN M[Len(resources)]

\* LeastErrorRateStrategy.select_resource(task, resources): None (0) for an
\* empty catalogue, the minimum otherwise
LeastErrorRateSelectResource(resources) ==
    /\ returned' = [fn |-> "LeastErrorRateStrategy.select_resource",
                    args |-> resources,
                    value |-> IF Len(resources) = 0 THEN 0
                              ELSE MinByErrorRate(resources).pick,
                    raised |-> IF Len(resources) = 0 THEN "None"
                               ELSE MinByErrorRate(resources).raised]
    /\ UNCHANGED notCallVars

\* one call in a behaviour
LeastErrorNext ==
    /\ returned = NoCall
    /\ \E resources \in OptionalRateCatalogues : LeastErrorRateSelectResource(resources)

\* ------------------------------------------------------------------ SpecBest
\* Q_DREAMER.get_best_resource(quantum_task): the strategy's select_resource,
\* then print(f"Best resource selected: {best_resource.name}"), then the return;
\* reading .name of None raises AttributeError
GetBestResource(task) ==
    /\ StrategySelect(task)
    /\ LET best_resource == select_resource(strategy_type, task, dreamer_resources,
                                            current_index)
       IN returned' = [fn |-> "get_best_resource", args |-> task,
                       value |-> best_resource,
                       raised |-> IF best_resource = 0 THEN "AttributeError" ELSE "None"]
    /\ UNCHANGED <<taskVars, futVars, shimVars, svcVars, planVars, managers>>

BestNext == \E task \in SelectorTasks : GetBestResource(task)

\* ------------------------------------------------------------------ SpecExecutorType
\* strings are sequences of characters here, so that lower-casing and the
\* substring test are computed
QISKIT == <<"q", "i", "s", "k", "i", "t">>
PENNYLANE == <<"p", "e", "n", "n", "y", "l", "a", "n", "e">>
BRAKET == <<"b", "r", "a", "k", "e", "t">>
IBMQ == <<"i", "b", "m", "q">>

\* the keys of EXECUTOR_REGISTRY
EXECUTOR_REGISTRY == { QISKIT, PENNYLANE, BRAKET, IBMQ }

\* the pieces resource names are put together from
NameParts ==
    { <<"q", "i", "s", "k", "i", "t">>,
      <<"p", "e", "n", "n", "y", "l", "a", "n", "e">>,
      <<"b", "r", "a", "k", "e", "t">>,
      <<"i", "b", "m", "q">>,
      <<"Q", "i", "s", "k", "i", "t">>,
      <<"I", "B", "M", "Q">>,
      <<"P", "e", "n", "n", "y", "L", "a", "n", "e">>,
      <<"_">>,
      <<"q", "i", "s">>,
      <<"k", "i", "t">>,
      <<"i", "b", "m">>,
      <<"q">>,
      <<"a", "e", "r">>,
      <<"f", "a", "k", "e">> }
JoinParts(parts) ==
    LET J[k \in 0..Len(parts)] == IF k = 0 THEN << >> ELSE J[k - 1] \o parts[k]
    IN J[Len(parts)]
ResourceNames == { JoinParts(parts) : parts \in SeqsUpTo(NameParts, MaxNameParts) }

\* str.lower() on the characters that occur in the names
LowerChar(c) ==
    CASE c = "Q" -> "q" [] c = "I" -> "i" [] c = "B" -> "b" [] c = "M" -> "m"
      [] c = "P" -> "p" [] c = "L" -> "l" [] OTHER -> c
Lower(name) == [k \in DOMAIN name |-> LowerChar(name[k])]

\* Python's `sub in name`
Contains(sub, name) ==
    \E k \in 0..(Len(name) - Len(sub)) : SubSeq(name, k + 1, k + Len(sub)) = sub

\* the chain with the ibmq branch left out
ExecutorTypeWithoutIbmq(name) ==
    LET lowered_name == Lower(name)
    IN IF Contains(QISKIT, lowered_name) THEN QISKIT
       ELSE IF Contains(PENNYLANE, lowered_name) THEN PENNYLANE
       ELSE IF Contains(BRAKET, lowered_name) THEN BRAKET
       ELSE QISKIT

\* QuantumExecutionService._get_executor_type_from_resource(resource), on the
\* resource's name
get_executor_type_from_resource(name) ==
    LET lowered_name == Lower(name)
    IN IF Contains(QISKIT, lowered_name) THEN QISKIT
       ELSE IF Contains(PENNYLANE, lowered_name) THEN PENNYLANE
       ELSE IF Contains(BRAKET, lowered_name) THEN BRAKET
       ELSE IF Contains(IBMQ, lowered_name) THEN IBMQ
       ELSE QISKIT

GetExecutorType(name) ==
    /\ returned' = [fn |-> "_get_executor_type_from_resource", args |-> name,
                    value |-> get_executor_type_from_resource(name), raised |-> "None"]
    /\ UNCHANGED notCallVars

\* one call in a behaviour
ExecutorTypeNext ==
    /\ returned = NoCall
    /\ \E name \in ResourceNames : GetExecutorType(name)

\* ------------------------------------------------------------------ SpecPilotFamily
\* a resource on its way from a pilot's executor to the shim: the generator
\* names it, initialize_dreamer prefixes the pilot's name, and the shim reads
\* the executor family off the prefixed name

\* the pieces pilot names are put together from
PilotNameParts == { <<"p", "i", "l", "o", "t">>, <<"-">>, <<"1">>, <<"q", "p", "u">>, <<"Q", "i", "s", "k", "i", "t">> }
PrefixingPilotNames ==
    { JoinParts(parts) : parts \in SeqsUpTo(PilotNameParts, MaxNameParts) } \ { << >> }

\* config['devices'] entries of a pennylane pilot
DEFAULT_QUBIT == <<"d", "e", "f", "a", "u", "l", "t", ".", "q", "u", "b", "i", "t">>
QISKIT_AER == <<"q", "i", "s", "k", "i", "t", ".", "a", "e", "r">>
LIGHTNING_QUBIT == <<"l", "i", "g", "h", "t", "n", "i", "n", "g", ".", "q", "u", "b", "i", "t">>
BRAKET_AWS_QUBIT == <<"b", "r", "a", "k", "e", "t", ".", "a", "w", "s", ".", "q", "u", "b", "i", "t">>
DEFAULT_MIXED == <<"d", "e", "f", "a", "u", "l", "t", ".", "m", "i", "x", "e", "d">>
PennylaneDevices == { DEFAULT_QUBIT, QISKIT_AER, LIGHTNING_QUBIT, BRAKET_AWS_QUBIT, DEFAULT_MIXED }

\* the executors of quantum pilots
QISKIT_LOCAL == <<"q", "i", "s", "k", "i", "t", "_", "l", "o", "c", "a", "l">>
BRAKET_LOCAL == <<"b", "r", "a", "k", "e", "t", "_", "l", "o", "c", "a", "l">>
IBMQ_QASM == <<"i", "b", "m", "q", "_", "q", "a", "s", "m", "_", "s", "i", "m", "u", "l", "a", "t", "o", "r">>
QuantumExecutors == { QISKIT_LOCAL, PENNYLANE, BRAKET_LOCAL, IBMQ_QASM }

\* str.startswith
HasPrefix(name, prefix) ==
    Len(name) >= Len(prefix) /\ SubSeq(name, 1, Len(prefix)) = prefix

\* device_name.replace('.', '_')
ReplaceDots(name) == [k \in DOMAIN name |-> IF name[k] = "." THEN "_" ELSE name[k]]

\* _get_pennylane_resources: the key (and name) of the resource made for a device
pennylane_resource_name(device_name) ==
    CASE device_name = DEFAULT_QUBIT -> <<"p", "e", "n", "n", "y", "l", "a", "n", "e", "_", "d", "e", "f", "a", "u", "l", "t", "_", "q", "u", "b", "i", "t">>
      [] device_name = QISKIT_AER -> <<"p", "e", "n", "n", "y", "l", "a", "n", "e", "_", "q", "i", "s", "k", "i", "t">>
      [] device_name = LIGHTNING_QUBIT -> <<"p", "e", "n", "n", "y", "l", "a", "n", "e", "_", "l", "i", "g", "h", "t", "n", "i", "n", "g">>
      [] device_name = BRAKET_AWS_QUBIT -> <<"p", "e", "n", "n", "y", "l", "a", "n", "e", "_", "b", "r", "a", "k", "e", "t">>
      [] OTHER -> PENNYLANE \o <<"_">> \o ReplaceDots(device_name)

\* get_quantum_resources(executor, config): the names of the resources made.
\* qiskit_local gives its two simulators; ibmq_* and braket_* without a
\* provider account give one generic resource named after the executor
get_quantum_resource_names(executor, devices) ==
    IF executor = QISKIT_LOCAL \/ executor = QISKIT
    THEN { <<"q", "i", "s", "k", "i", "t", "_", "a", "e", "r", "_", "s", "i", "m", "u", "l", "a", "t", "o", "r">>,
           <<"q", "i", "s", "k", "i", "t", "_", "b", "a", "s", "i", "c", "a", "e", "r", "_", "s", "i", "m", "u", "l", "a", "t", "o", "r">> }
    ELSE IF HasPrefix(executor, IBMQ \o <<"_">>) THEN { executor }
    ELSE IF HasPrefix(executor, BRAKET \o <<"_">>) THEN { executor }
    ELSE IF executor = PENNYLANE
    THEN { pennylane_resource_name(device_name) : device_name \in devices }
    ELSE { }

\* the family of EXECUTOR_REGISTRY an executor name belongs to
ExecutorFamily(executor) ==
    IF executor = QISKIT_LOCAL \/ executor = QISKIT THEN QISKIT
    ELSE IF HasPrefix(executor, IBMQ \o <<"_">>) THEN IBMQ
    ELSE IF HasPrefix(executor, BRAKET \o <<"_">>) THEN BRAKET
    ELSE PENNYLANE

\* initialize_dreamer: prefixed_name = f"{pilot_name}_{resource_name}"
PrefixedResourceName(pilot_name, name) == pilot_name \o <<"_">> \o name

\* one resource of one pilot: named by the generator, prefixed by
\* initialize_dreamer, classified by the shim
ContributeResource(pilot_name, executor, device_name) ==
    /\ \E name \in get_quantum_resource_names(executor, {device_name}) :
          returned' = [fn |-> "contribute",
                       args |-> [pilot_name |-> pilot_name, executor |-> executor,
                                 name |-> name],
                       value |-> get_executor_type_from_resource(
                                     PrefixedResourceName(pilot_name, name)),
                       raised |-> "None"]
    /\ UNCHANGED notCallVars

\* one resource in a behaviour
PilotFamilyNext ==
    /\ returned = NoCall
    /\ \E pilot_name \in PrefixingPilotNames, executor \in QuantumExecutors,
          device_name \in PennylaneDevices :
            ContributeResource(pilot_name, executor, device_name)

\* ------------------------------------------------------------------ SpecManagerWait
\* QTauManager.wait() polling the state of the manager's batch job.  The job
\* moves through the PilotJob lifecycle on its own; done, failed and cancelled
\* are final.
Managers == 1..NManagers

PilotJobStates == { "pending", "running", "done", "failed", "cancelled" }

\* the states a PilotJob can move to from a state
JobSuccessors(state) ==
    CASE state = "pending" -> { "running", "failed", "cancelled" }
      [] state = "running" -> { "done", "failed", "cancelled" }
      [] OTHER -> { }

\* submit_qtau has run: the job exists and is pending, wait() is not called yet
ManagersInit ==
    managers = [m \in Managers |-> [qtau_job |-> "pending", pc |-> "idle", state |-> "None"]]

\* the batch system moves the job on
JobAdvance(m) ==
    /\ \E next \in JobSuccessors(managers[m].qtau_job) :
          managers' = [managers EXCEPT ![m].qtau_job = next]
    /\ UNCHANGED notManagerVars

\* wait() is called
ManagerWaitCall(m) ==
    /\ managers[m].pc = "idle"
    /\ managers' = [managers EXCEPT ![m].pc = "get_state"]
    /\ UNCHANGED notManagerVars

\* wait(): state = self.qtau_job.get_state().lower(), before the loop and at
\* the end of its body
ManagerWaitGetState(m) ==
    /\ managers[m].pc = "get_state"
    /\ managers' = [managers EXCEPT ![m].pc = "test", ![m].state = managers[m].qtau_job]
    /\ UNCHANGED notManagerVars

\* the states that end the loop
WaitIsOver(state) == state = "running" \/ state = "done"

\* wait(): while state != "running" and state != "done"
ManagerWaitTest(m) ==
    /\ managers[m].pc = "test"
    /\ managers' = [managers EXCEPT
                       ![m].pc = IF WaitIsOver(managers[m].state) THEN "returned" ELSE "sleep"]
    /\ UNCHANGED notManagerVars

\* wait(): time.sleep(6)
ManagerWaitSleep(m) ==
    /\ managers[m].pc = "sleep"
    /\ managers' = [managers EXCEPT ![m].pc = "get_state"]
    /\ UNCHANGED notManagerVars

ManagerWaitNext ==
    \E m \in Managers :
        \/ JobAdvance(m)
        \/ ManagerWaitCall(m)
        \/ ManagerWaitGetState(m)
        \/ ManagerWaitTest(m)
        \/ ManagerWaitSleep(m)

\* a thread inside wait() keeps running: each statement of the loop is taken
\* when it is due.  Nothing is assumed of the batch system.
ManagerWaitFair ==
    \A m \in Managers :
        /\ WF_vars(ManagerWaitGetState(m))
        /\ WF_vars(ManagerWaitTest(m))
        /\ WF_vars(ManagerWaitSleep(m))

InitTasks == TasksInit /\ FuturesInit /\ ShimInit /\ SelectorIdle /\ ServiceInit /\ PlannerInit
             /\ CallInit /\ ManagersInit
InitIdle == TasksIdle /\ FuturesInit /\ ShimInit /\ SelectorIdle /\ ServiceInit /\ PlannerInit
            /\ CallInit /\ ManagersInit
InitSelector == TasksIdle /\ FuturesInit /\ ShimInit /\ SelectorInit /\ ServiceInit /\ PlannerInit
                /\ CallInit /\ ManagersInit

SpecTasks == InitTasks /\ [][TasksNext]_vars
SpecFutures == InitIdle /\ [][FuturesNext]_vars
SpecWait == InitIdle /\ [][WaitNext]_vars
SpecTimed == InitIdle /\ [][TimedNext]_vars
SpecPlanner == InitIdle /\ [][PlannerNext]_vars
\* a call that has started runs on: the loop takes its next iteration while
\* candidates are left, and the function returns when the loop is left.  This
\* is weak fairness of PlanStep and of PlanReturn written out: ENABLED is the
\* guard of the action, and a step of PlannerNext that leaves a state where
\* PlanStep (PlanReturn) is due and changes it is a PlanStep (PlanReturn)
\* step, since no other action of PlannerNext is enabled there and every
\* PlanStep shortens candidates or extends disabled, every PlanReturn changes
\* cp_pc.
PlanStepDue == cp_pc = "loop" /\ cp_candidates # << >>
PlanReturnDue == cp_pc = "finish" \/ (cp_pc = "loop" /\ cp_candidates = << >>)
PlanStepFair == []<>(~PlanStepDue) \/ []<><<PlanStepDue>>_vars
PlanReturnFair == []<>(~PlanReturnDue) \/ []<><<PlanReturnDue>>_vars
\* _build_edges drops a gate that is in neither overhead table, so a circuit
\* with such a gate runs as the circuit without it: the calls whose gates are
\* all in the tables stand for all calls
LivePlanArgs ==
    { args \in PlanArgs :
        \A k \in DOMAIN args.circuit.edges : args.circuit.edges[k].gate # "swap" }
PlannerLiveNext ==
    \/ \E args \in (IF cp_pc = "idle" THEN LivePlanArgs ELSE {}) : PlanCall(args)
    \/ PlanStep
    \/ PlanReturn
SpecPlannerLive == InitIdle /\ [][PlannerLiveNext]_vars /\ PlanStepFair /\ PlanReturnFair
SpecShim == InitIdle /\ [][ShimNext]_vars
SpecSelector == InitSelector /\ [][SelectorNext]_vars
InitRoundRobin == InitSelector /\ strategy_type = "round_robin"
SpecRoundRobin == InitRoundRobin /\ [][RoundRobinNext]_vars
SpecService == InitTasks /\ [][ServiceNext]_vars
SpecCancel == InitTasks /\ [][CancelNext]_vars
SpecMpi == InitTasks /\ [][MpiNext]_vars
SpecScoring == InitIdle /\ [][ScoringNext]_vars
SpecLeastError == InitIdle /\ [][LeastErrorNext]_vars
SpecBest == InitSelector /\ [][BestNext]_vars
SpecExecutorType == InitIdle /\ [][ExecutorTypeNext]_vars
SpecPilotFamily == InitIdle /\ [][PilotFamilyNext]_vars
SpecManagerWait == InitIdle /\ [][ManagerWaitNext]_vars /\ ManagerWaitFair

\* ------------------------------------------------------------------ claims
RowsOf(t) == { i \in DOMAIN csv_rows : csv_rows[i].task_id = <<"task", t>> }

\* C1: every classical task whose wrapper closure has run has exactly one row in
\* the metrics file, with status SUCCESS or FAILED, whether the user function
\* returned or raised.
C1_ExactlyOneRowPerTask ==
    \A t \in Tasks :
        /\ Cardinality(RowsOf(t)) <= 1
        /\ tpc[t] \in {"done", "aborted"} =>
              /\ Cardinality(RowsOf(t)) = 1
              /\ \A i \in RowsOf(t) : csv_rows[i].status \in {"SUCCESS", "FAILED"}

\* C2: when the user function raised, the wrapper re-raises after the row is
\* written, so the future ends failed instead of finishing with None.
C2_RaiseFailsFuture ==
    \A t \in Tasks :
        (tpc[t] = "done" /\ task_metrics[t].status = "FAILED")
            => task_future[t].state = "error"

\* C4: task wrappers of one process serialize their metrics appends through one
\* shared lock: no two of them are inside the open-and-write-row section (between
\* entering `with lock:` and leaving it) at the same time.
C4_MetricsWriteExclusive ==
    \A t1, t2 \in Tasks :
        t1 # t2 =>
            ~(tpc[t1] \in {"writing", "written"} /\ tpc[t2] \in {"writing", "written"})

C3_ShimFailureFailsFuture ==
    \A i \in Invocations :
        (spc[i] = "done" /\ shim_metrics[i].status = "FAILED") =>
            /\ shim_future[i].state = "error"
            /\ shim_future[i].value = shim_metrics[i].error_msg

\* C5: at most one Selector object is ever constructed in a worker process and
\* every invocation works with that one object.
C5_SelectorConstructedOnce ==
    /\ Len(selectors) <= 1
    /\ \A i, j \in Invocations :
          (worker_qdreamer[i] # 0 /\ worker_qdreamer[j] # 0)
              => worker_qdreamer[i] = worker_qdreamer[j]

\* C6: a quantum submit made before initialize_dreamer has succeeded fails with
\* the NotInitialized error (PilotAPIException) and ships nothing.
C6_SubmitBeforeInitRejected ==
    \A k \in DOMAIN quantum_submits :
        ~quantum_submits[k].initialized
            => quantum_submits[k].outcome = "PilotAPIException"

\* the local resource names a pilot with this executor contributes
LocalNames(executor) ==
    LET items == get_quantum_resources(executor, << >>, 0)
    IN { items[i].key : i \in DOMAIN items }

\* C7: after initialize_dreamer, two quantum pilots P1 and P2 that both contribute
\* a resource with local name r have two entries P1_r and P2_r in the catalogue,
\* held by different objects, each carrying its own name.
C7_PrefixedEntriesDistinct ==
    (last_call.op = "initialize_dreamer" /\ last_call.raised = "None") =>
        \A i, j \in DOMAIN pilots :
            LET d1 == pilots[i].ref.desc
                d2 == pilots[j].ref.desc
            IN (i # j /\ d1.resource_type = "quantum" /\ d2.resource_type = "quantum"
                      /\ d1.executor # "None" /\ d2.executor # "None") =>
                   \A r \in LocalNames(d1.executor) \cap LocalNames(d2.executor) :
                       LET k1 == PrefixedName(pilots[i].key, r)
                           k2 == PrefixedName(pilots[j].key, r)
                       IN /\ k1 \in DictKeys(quantum_resources)
                          /\ k2 \in DictKeys(quantum_resources)
                          /\ DictGet(quantum_resources, k1) # DictGet(quantum_resources, k2)
                          /\ resource_name[DictGet(quantum_resources, k1)] = k1
                          /\ resource_name[DictGet(quantum_resources, k2)] = k2

\* C8: whatever the strategy, a selection for task T never returns a resource
\* unsuitable for T, and returns none when no catalogue resource is suitable.
C8_SelectionIsSuitable ==
    \A k \in DOMAIN selections :
        LET s == selections[k]
        IN /\ s.pick # 0 => Suitable(s.task, dreamer_resources[s.pick])
           /\ (\A i \in DOMAIN dreamer_resources : ~Suitable(s.task, dreamer_resources[i]))
                 => s.pick = 0

\* how often catalogue entry e was picked in selections a..b
PicksOf(e, a, b) == Cardinality({ k \in a..b : selections[k].pick = e })

\* C9: a round-robin Selector on a catalogue of n entries starts at the first
\* entry, moves to the next entry in insertion order on every call (wrapping
\* around), and so any k consecutive selections pick every entry at least
\* floor(k/n) and at most ceil(k/n) times.
C9_RoundRobinFair ==
    LET n == Len(dreamer_resources)
    IN (strategy_type = "round_robin" /\ n > 0) =>
          /\ Len(selections) > 0 => selections[1].pick = 1
          /\ \A k \in 1..(Len(selections) - 1) :
                selections[k + 1].pick = (selections[k].pick % n) + 1
          /\ \A a, b \in DOMAIN selections :
                a <= b =>
                    \A e \in 1..n :
                        /\ PicksOf(e, a, b) >= (b - a + 1) \div n
                        /\ PicksOf(e, a, b) <= ((b - a + 1) + n - 1) \div n

\* the rotation has gone once around a catalogue of several entries
C9_Witness ==
    /\ strategy_type = "round_robin"
    /\ Len(dreamer_resources) >= 2
    /\ Len(selections) > Len(dreamer_resources)

\* the positions of wait_tasks' argument whose future failed, in order
FailedIn(tasks) ==
    LET F[k \in 0..Len(tasks)] ==
            IF k = 0 THEN << >>
            ELSE IF futures[tasks[k]].state = "error" THEN Append(F[k - 1], tasks[k])
                 ELSE F[k - 1]
    IN F[Len(tasks)]

ShimRowsOf(i) == { k \in DOMAIN csv_rows : csv_rows[k].task_id = <<"quantum", i>> }

\* C12: every invocation of quantum_execution_remote that has ended has exactly
\* one row in the metrics file, and no invocation ever has more than one.
C12_ShimOneRowPerInvocation ==
    \A i \in Invocations :
        /\ Cardinality(ShimRowsOf(i)) <= 1
        /\ spc[i] \in {"done", "aborted"} => Cardinality(ShimRowsOf(i)) = 1

\* C13: every row in the metrics file has a status other than RUNNING and a
\* completion time not earlier than its submit time.
C13_RowsAreFinal ==
    \A k \in DOMAIN csv_rows :
        /\ csv_rows[k].status # "RUNNING"
        /\ csv_rows[k].completion_time >= csv_rows[k].submit_time
\* get_cut_plan has returned a plan
PlanReturned == cp_pc = "returned"

\* C14 as stated: a plan returned under max_overhead = M has total_overhead <= M,
\* whatever M is
C14_OverheadWithinCap ==
    (PlanReturned /\ cp_args.max_overhead # << >>)
        => cp_plan.total_overhead <= cp_args.max_overhead[1]

\* C14: a plan returned under max_overhead = M has total_overhead <= M when
\* M >= 1, and total_overhead = 1 (no cut at all) when M < 1
C14_OverheadWithinCapOrNoCut ==
    (PlanReturned /\ cp_args.max_overhead # << >>)
        => IF cp_args.max_overhead[1] >= 1
             THEN cp_plan.total_overhead <= cp_args.max_overhead[1]
             ELSE cp_plan.total_overhead = 1 /\ cp_plan.number_of_cuts = 0

\* a plan returned under a cap of 9 that took one cut and left a second tree
\* edge uncut inside a fragment
C14_Witness ==
    /\ PlanReturned
    /\ cp_args.max_overhead = <<9>>
    /\ cp_plan.number_of_cuts = 1
    /\ cp_plan.total_overhead = 9
    /\ \E i \in DOMAIN cp_fragments : Len(cp_fragments[i]) >= 2
\* the product of the overheads of a list of cuts
OverheadProduct(cuts) ==
    LET P[k \in 0..Len(cuts)] ==
            IF k = 0 THEN 1 ELSE P[k - 1] * gate_overhead(cuts[k].gate)
    IN P[Len(cuts)]

\* C15: in every feasible or infeasible plan, total_overhead is the product of
\* the overheads of exactly the edges in selected_cuts, and number_of_cuts counts them
C15_OverheadIsProductOfCuts ==
    (PlanReturned /\ cp_plan.kind \in {"feasible", "infeasible"})
        => /\ cp_plan.total_overhead = OverheadProduct(cp_plan.selected_cuts)
           /\ cp_plan.number_of_cuts = Len(cp_plan.selected_cuts)

\* a feasible plan with one cut, returned after the loop went on to a second cut
C15_Witness ==
    /\ PlanReturned
    /\ cp_plan.kind = "feasible"
    /\ cp_plan.number_of_cuts = 1
    /\ Len(cp_selected) = 2
\* the qubits that are an endpoint of at least one two-qubit gate of the input
ActiveQubits(circuit) ==
    { n \in Range(circuit.nodes) : \E e \in Range(circuit.edges) : e.u = n \/ e.v = n }

\* no qubit occurs in two fragments, or twice in one
PairwiseDisjoint(fragments) ==
    /\ \A i, j \in DOMAIN fragments : i # j => Range(fragments[i]) \cap Range(fragments[j]) = {}
    /\ \A i \in DOMAIN fragments : Cardinality(Range(fragments[i])) = Len(fragments[i])

\* C16: in every returned plan the fragments are pairwise disjoint and their
\* union is exactly the set of active qubits of the input
C16_FragmentsPartitionActiveQubits ==
    PlanReturned
        => /\ PairwiseDisjoint(cp_plan.fragments)
           /\ UNION { Range(cp_plan.fragments[i]) : i \in DOMAIN cp_plan.fragments }
                 = ActiveQubits(cp_args.circuit)
\* every qubit of every fragment is placed on exactly one QPU
PlacesEveryQubitOnce(assignment, fragments) ==
    \A i \in DOMAIN fragments : \A n \in Range(fragments[i]) :
        Cardinality({ <<q, k>> \in UNION { {q} \X DOMAIN assignment[q] : q \in DOMAIN assignment } :
                        assignment[q][k] = n }) = 1

\* C17: with capacities given and a visited state that passed the capacity
\* check, qpu_assignment is the first-fit placement (largest fragments first) of
\* the plan's fragments into bins of int(capacity * 1.2): non-empty, every qubit
\* of every fragment on exactly one QPU
C17_AssignmentIsFirstFitWithTolerance ==
    (PlanReturned /\ cp_plan.kind = "feasible" /\ cp_args.qpu_capacities # << >>)
        => /\ cp_plan.qpu_assignment =
                 assign_fragments_by_capacity(cp_plan.fragments,
                                              WithTolerance(cp_args.qpu_capacities)).placement
           /\ cp_plan.qpu_assignment # << >>
           /\ PlacesEveryQubitOnce(cp_plan.qpu_assignment, cp_plan.fragments)
\* no state the planner visited passed the capacity check
NoVisitedStateFeasible ==
    /\ cp_visited # << >>
    /\ \A k \in DOMAIN cp_visited : ~cp_visited[k].feasible

\* C18: when no visited state passes the capacity check, get_cut_plan does not
\* raise and returns the state reached last, with an empty qpu_assignment and notes
C18_InfeasiblePlanIsReturned ==
    /\ (cp_pc = "raised") => cp_args.qpus_count <= 0
    /\ (PlanReturned /\ NoVisitedStateFeasible)
          => /\ cp_plan.kind = "infeasible"
             /\ cp_plan.fragments = cp_visited[Len(cp_visited)].fragments
             /\ cp_plan.selected_cuts = cp_visited[Len(cp_visited)].selected
             /\ cp_plan.total_overhead = cp_visited[Len(cp_visited)].overhead
             /\ cp_plan.number_of_cuts = Len(cp_visited) - 1
             /\ cp_plan.qpu_assignment = << >>
             /\ cp_plan.notes

\* an infeasible plan returned after two accepted cuts
C18_Witness ==
    /\ PlanReturned
    /\ NoVisitedStateFeasible
    /\ Len(cp_visited) = 3
    /\ cp_plan.kind = "infeasible"
\* C19: after cancel() every pilot job created through create_pilot has
\* received cancel, whatever create_pilot calls were made (names reused or not)
C19_CancelReachesEveryPilotJob ==
    (last_call.op = "cancel") => \A j \in DOMAIN jobs : jobs[j].cancelled

NoQuantumPilotRegistered ==
    \A i \in DOMAIN pilots : pilots[i].ref.desc.resource_type # "quantum"

\* C21: initialize_dreamer raises NoQuantumPilots when no registered pilot is
\* quantum and NoResources when quantum pilots exist but the combined catalogue
\* is empty, and a call that raises either leaves dreamer_enabled as it was
C21_InitializeDreamerErrors ==
    /\ [](last_call.op = "initialize_dreamer"
            => /\ NoQuantumPilotRegistered => last_call.raised = "NoQuantumPilots"
               /\ (~NoQuantumPilotRegistered /\ quantum_resources = << >>)
                     => last_call.raised = "NoResources")
    /\ [][(init_calls' # init_calls
             /\ last_call'.raised \in {"NoQuantumPilots", "NoResources"})
            => dreamer_enabled' = dreamer_enabled]_vars

\* initialize_dreamer has failed with NoResources on a service with a quantum
\* pilot that has no quantum sub-map
C21_Witness ==
    /\ last_call.op = "initialize_dreamer"
    /\ last_call.raised = "NoResources"
    /\ ~NoQuantumPilotRegistered
    /\ ~dreamer_enabled
\* C22: a task submitted with submit_mpi_task whose srun command ends with a
\* non-zero exit code has a metrics row with status FAILED
C22_NonZeroExitIsFailed ==
    \A r \in DOMAIN csv_rows :
        LET t == csv_rows[r].task_id[2]
        IN (srun_exit[t] # << >> /\ srun_exit[t][1] # 0) => csv_rows[r].status = "FAILED"
\* the workers the Dask scheduler may run a task on: those of its worker
\* restriction, or every worker when the restriction is absent or empty
EligibleWorkers(future) ==
    IF future.workers = << >> \/ future.workers[1] = {} THEN WorkerRoster
    ELSE future.workers[1]

\* C23: a task submitted with pool-tag P on a client with a worker roster is
\* handed to the client with exactly the roster workers whose name starts with P,
\* and is eligible on no worker whose name does not start with P
C23_PoolTagRestrictsWorkers ==
    \A t \in Tasks :
        (execution_engine = "DASK" /\ tpc[t] \notin {"new", "rejected"}
           /\ task_metrics[t].pilot_scheduled # ANY)
          => /\ task_future[t].workers =
                   << { w \in WorkerRoster : StartsWith(w, task_metrics[t].pilot_scheduled) } >>
             /\ \A w \in EligibleWorkers(task_future[t]) :
                   StartsWith(w, task_metrics[t].pilot_scheduled)
\* C24: submit_task without a cluster client raises the submit error, returns
\* no future, hands nothing to the cluster and writes no metrics row
C24_NoClientRejectsSubmit ==
    \A t \in Tasks :
        tpc[t] = "rejected"
          => /\ submit_error[t] = "PilotAPIException"
             /\ task_future[t] = NoFuture
             /\ task_metrics[t] = METRICS
             /\ \A r \in DOMAIN csv_rows : csv_rows[r].task_id # <<"task", t>>

\* task 1 was rejected for want of a client, and the metrics file holds the
\* row of another task
C24_Witness ==
    /\ tpc[1] = "rejected"
    /\ Len(csv_rows) = 1
\* C25: an invocation that finds the worker's Selector already constructed
\* selects from the catalogue of the first invocation that constructed one,
\* whatever catalogue it was called with itself
C25_FirstCatalogueWins ==
    \A i \in Invocations :
        (worker_qdreamer[i] # 0 /\ selectors[worker_qdreamer[i]].by # i)
          => selectors[worker_qdreamer[i]].quantum_resources = selectors[1].quantum_resources

\* C30: when a resource was selected and the executor then raised, the row of
\* the invocation records FAILED, the exception's message, and the name of the
\* selected resource as pilot_scheduled
C30_FailedRowKeepsSelectedResource ==
    \A r \in DOMAIN csv_rows :
        LET row == csv_rows[r]
            i == row.task_id[2]
        IN (row.task_id[1] = "quantum" /\ row.error_msg = "exec failed")
             => /\ row.status = "FAILED"
                /\ row.pilot_scheduled =
                      selectors[worker_qdreamer[i]].quantum_resources[BestResource(i)].name

RankedAbove(a, b) == b # << >> /\ (a = << >> \/ a[1] > b[1])

\* C27: on a non-empty catalogue the least-error-rate strategy returns a
\* resource that no other resource beats, the first such in insertion order,
\* where an unknown (None) error rate ranks as +infinity
C27_LeastErrorRateRanksNoneLast ==
    (returned.fn = "LeastErrorRateStrategy.select_resource" /\ Len(returned.args) > 0) =>
        /\ returned.raised = "None"
        /\ returned.value \in DOMAIN returned.args
        /\ \A j \in DOMAIN returned.args :
               /\ ~RankedAbove(returned.args[returned.value].error_rate,
                               returned.args[j].error_rate)
               /\ j < returned.value
                    => RankedAbove(returned.args[j].error_rate,
                                   returned.args[returned.value].error_rate)

\* C28: get_best_resource returns None without raising whenever its strategy
\* finds no resource, for each of the three strategies
C28_NoResourceReturnsNone ==
    (returned.fn = "get_best_resource" /\ selections[Len(selections)].pick = 0)
        => (returned.raised = "None" /\ returned.value = 0)

\* the families whose name occurs in the lower-cased resource name, found
\* character by character without the operators of the model of the shim
FamiliesIn(name) ==
    { f \in EXECUTOR_REGISTRY :
        \E k \in 1..Len(name) :
            /\ k + Len(f) - 1 <= Len(name)
            /\ \A d \in 1..Len(f) :
                   \/ name[k + d - 1] = f[d]
                   \/ <<name[k + d - 1], f[d]>> \in { <<"Q", "q">>, <<"I", "i">>, <<"B", "b">>,
                                                       <<"M", "m">>, <<"P", "p">>, <<"L", "l">> } }

\* C29: the executor family derived from a resource name is a family whose
\* name is a substring of the lower-cased resource name when there is one, and
\* qiskit when no family name occurs in it
C29_FamilyOccursInNameOrIsQiskit ==
    returned.fn = "_get_executor_type_from_resource" =>
        IF FamiliesIn(returned.args) # {}
          THEN returned.value \in FamiliesIn(returned.args)
          ELSE returned.value = QISKIT

\* a name with upper-case letters whose only family is ibmq, spread over two
\* pieces of the name
C29_Witness ==
    /\ returned.fn = "_get_executor_type_from_resource"
    /\ returned.value = IBMQ
    /\ returned.args # Lower(returned.args)
    /\ ~Contains(IBMQ, returned.args)
    /\ \E k \in 1..Len(returned.args) : returned.args[k] = "_"

\* the visited states that pass the capacity check
FeasibleVisits == { i \in DOMAIN cp_visited : cp_visited[i].feasible }

\* C31: the quality score of a returned feasible plan is the greatest score of
\* the capacity-feasible states visited, and the plan is the first visited
\* state with that score
C31_ReturnedPlanIsFirstBestVisited ==
    (cp_pc = "returned" /\ cp_plan.kind = "feasible") =>
        \E i \in FeasibleVisits :
            /\ cp_plan.quality_score = cp_visited[i].score
            /\ cp_plan.fragments = cp_visited[i].fragments
            /\ cp_plan.selected_cuts = cp_visited[i].selected
            /\ \A j \in FeasibleVisits :
                   /\ ~ScoreGreater(cp_visited[j].score, cp_visited[i].score)
                   /\ j < i => ScoreGreater(cp_visited[i].score, cp_visited[j].score)

\* a returned plan whose score a later feasible state, with one more cut,
\* reached as well
C31_Witness ==
    /\ cp_pc = "returned"
    /\ cp_plan.kind = "feasible"
    /\ \E i, j \in FeasibleVisits :
           /\ i < j
           /\ cp_plan.selected_cuts = cp_visited[i].selected
           /\ ~ScoreGreater(cp_visited[i].score, cp_visited[j].score)
           /\ ~ScoreGreater(cp_visited[j].score, cp_visited[i].score)
    /\ \E k \in DOMAIN cp_visited : ~cp_visited[k].feasible

\* C32: no returned plan separates the endpoints of a two-qubit gate that is in
\* neither overhead table: both endpoints lie in one returned fragment
C32_NonCuttableGateNotSeparated ==
    cp_pc = "returned" =>
        \A k \in DOMAIN cp_args.circuit.edges :
            LET e == cp_args.circuit.edges[k]
            IN gate_overhead(e.gate) = 0
                 => \E f \in DOMAIN cp_plan.fragments :
                        {e.u, e.v} \subseteq Range(cp_plan.fragments[f])

\* C33: in a returned feasible plan no selected cut is wasted: the two
\* endpoints of every selected cut lie in different fragments of the plan
C33_NoSelectedCutIsWasted ==
    (cp_pc = "returned" /\ cp_plan.kind = "feasible") =>
        \A k \in DOMAIN cp_plan.selected_cuts :
            LET e == cp_plan.selected_cuts[k]
            IN ~\E f \in DOMAIN cp_plan.fragments :
                    {e.u, e.v} \subseteq Range(cp_plan.fragments[f])

\* C34: with capacities and no overhead cap the infeasible plan is returned
\* only when no set of cuttable gates exists whose removal leaves fragments
\* that pass the capacity check
C34_InfeasibleOnlyWhenNoCutSetFits ==
    (/\ cp_pc = "returned"
     /\ cp_plan.kind = "infeasible"
     /\ cp_args.qpu_capacities # << >>
     /\ cp_args.max_overhead = << >>)
        => \A cuts \in SUBSET Range(cp_built) :
               ~capacity_ok(rebuild_fragments(cp_nodes, cp_built, cuts),
                            cp_args.qpu_capacities)

\* C35: get_cut_plan terminates: a call that has entered the greedy loop
\* returns, although the candidate pool is replenished after every accepted cut
C35_PlannerTerminates == (cp_pc = "loop") ~> (cp_pc = "returned")

\* a returned call that accepted more cuts than the first spanning trees
\* offered, so that an accepted cut came from the replenished pool
C35_Witness ==
    /\ cp_pc = "returned"
    /\ Len(cp_selected) > Len(cp_nodes) - 1
    /\ Len(cp_selected) >= 3

\* C36: after a successful initialize_dreamer every catalogue entry is stored
\* under the name attribute of the resource it holds, and no resource object is
\* held under two keys
C36_CatalogueKeyedByOwnName ==
    (last_call.op = "initialize_dreamer" /\ last_call.raised = "None") =>
        \A k1 \in DictKeys(quantum_resources) :
            /\ resource_name[DictGet(quantum_resources, k1)] = k1
            /\ \A k2 \in DictKeys(quantum_resources) :
                   k1 # k2 => DictGet(quantum_resources, k1) # DictGet(quantum_resources, k2)

\* C37: an initialize_dreamer call that raises leaves the catalogue, the
\* Selector and the enabled flag that an earlier call installed as they were
C37_FailedInitializeKeepsInstalled ==
    [][(/\ dreamer_enabled
        /\ init_calls' = init_calls + 1
        /\ last_call'.raised # "None")
          => /\ quantum_resources' = quantum_resources
             /\ qdreamer' = qdreamer
             /\ dreamer_enabled' = dreamer_enabled]_vars
\* the number of finished select_resource calls that returned entry i
ReturnedPicks(i) == Cardinality({ j \in DOMAIN selections : selections[j].pick = i })

\* C38: when threads call one round-robin Selector concurrently on a fixed
\* catalogue of n entries, then once k calls have returned and none is under
\* way every entry was picked between floor(k/n) and ceil(k/n) times, and the
\* rotation has advanced by exactly k (no step lost, none duplicated).
C38_ConcurrentRotationIsBalanced ==
    LET n == Len(dreamer_resources)
        k == Len(selections)
    IN (/\ strategy_type = "round_robin"
        /\ n > 0
        /\ \A th \in Threads : select_calls[th].pc = "idle")
         => /\ current_index = k
            /\ \A i \in 1..n :
                  /\ ReturnedPicks(i) >= k \div n
                  /\ ReturnedPicks(i) <= (k + n - 1) \div n
\* C39: a resource contributed to the catalogue by a pilot whose executor
\* belongs to family F is classified as family F by the shim, which reads the
\* family off the pilot-prefixed resource name.
C39_ShimFamilyIsPilotFamily ==
    returned.fn = "contribute" =>
        returned.value = ExecutorFamily(returned.args.executor)
\* C40: a wait() call on a cluster manager whose pilot job has left pending,
\* for running, done, failed or cancelled, eventually returns.
C40_WaitReturnsOnceJobLeftPending ==
    \A m \in Managers :
        (managers[m].pc # "idle" /\ managers[m].qtau_job # "pending")
            ~> (managers[m].pc = "returned")
====
